---- MODULE Spec2Model ----
(***************************************************************************)
(* blender-plots: the shape inference / broadcasting engine (tile_data),   *)
(* the node-graph builder (NodeLinker) and the entity classes (Scatter,    *)
(* Arrows, Surface) as state machines over the Blender backend state they  *)
(* mutate.                                                                 *)
(*                                                                         *)
(* An n-dimensional numpy array is a record [shape, data]: shape is the    *)
(* tuple of dimensions and data the elements in row-major (C) order.       *)
(* tile_data only moves elements, it never inspects them, so the arrays    *)
(* fed to it hold pairwise distinct elements (Ramp): where an element of   *)
(* the output came from is then visible in the output.                     *)
(***************************************************************************)
EXTENDS Integers, Sequences, FiniteSets, TLC

VARIABLES
    pc,            \* position of the running call / phase of the specification
    err,           \* the exception the last call raised, "none" if it returned
    \* the entity (self)
    cls,           \* class of the entity: "Scatter", "Arrows" or "Surface"
    n_frames,      \* self.n_frames (None when the plot is static)
    dims,          \* self.dims (Plot); <<self.n_points>> for Scatter
    args,          \* the arguments of the constructor call
    points,        \* self._points (NoArray before the first assignment)
    color,         \* self._color (NoArray for None)
    arrows,        \* self._arrows (NoArray for None)
    marker_rotation, \* self._marker_rotation (NoArray for None)
    color_material,  \* self.color_material: a material of bpy.data.materials (0 for None)
    marker_modifier, \* whether self.marker_modifier is set (Scatter)
    \* the backend objects of the entity
    scene,         \* the scene object under the entity's name, and whether one was deleted
    mesh,          \* self.mesh: whether it exists, its vertices and faces
    attributes,    \* the per-vertex attributes of the mesh, by name
    materials,     \* mesh.materials
    modifier,      \* the NODES modifier: whether it exists, has a node group, its parameters
    frame_end,     \* bpy.context.scene.frame_end (None while unset)
    fcurve,        \* the F-curve of the node group's action: the node whose input 0 it
                   \* drives and the co of its keyframe points (NoFcurve before)
    \* what the calls so far did
    constructed,   \* shape of the points, n_frames and dims when the constructor returned
    log,           \* the events of the construction, in order
    op,            \* the statement of the constructor / the setter last executed
    raised_in,     \* where the last exception was raised ("" if none)
    updates,       \* number of assignments after the construction
    \* one tile_data call
    data_array,    \* argument of the tile_data call
    valid_dims,    \* argument of the tile_data call: the accepted trailing shapes
    ret,           \* what the tile_data call returned or raised
    ret2,          \* what tile_data returned or raised on ret.out
    \* the node group (backend) and its NodeLinker
    version,       \* bpy.app.version[0]
    group_inputs,  \* the input sockets of the node group's interface, in creation order
    next_id,       \* the number the backend gives the next interface socket
    input_sockets, \* NodeLinker.input_sockets: name -> internal key
    declared,      \* the new_input_socket calls so far: name, key recorded, socket created
    nodes,         \* node_group.nodes, in creation order
    links,         \* node_group.links
    node,          \* the node the last new_node call created or fetched (index in nodes, 0: none)
    failed,        \* the binding at which the last new_node call raised
    call_kwargs,   \* the keyword arguments the running / last new_node call has gone through
    \* bpy.data.objects and the running new_empty call
    objects,       \* bpy.data.objects: the objects, each with its id, name and parent
    next_object,   \* the id of the next object bpy.data.objects.new creates
    active,        \* bpy.context.view_layer.objects.active (0: none)
    object_name,   \* the name the running / last new_empty call was given ("" before any)
    doomed,        \* the object of that name and its descendants when the call began
    \* one get_points_array call
    parse_args,    \* the module of the function and its arguments x, y, z, n_dims
    parsed,        \* what the call returned or raised
    \* one get_faces call
    faces_args,    \* its arguments n_points_x, n_points_y, n_frames
    faces          \* the quads it returned, as rows of four vertex indices

storedVars == <<args, points, color, arrows, marker_rotation, color_material, marker_modifier>>
backendVars == <<scene, mesh, attributes, materials, modifier, frame_end, fcurve>>
historyVars == <<constructed, log, op, raised_in, updates>>
entityVars == <<cls, n_frames, dims, storedVars, backendVars, historyVars>>
tileVars == <<data_array, valid_dims, ret, ret2>>
inputVars == <<version, group_inputs, next_id, input_sockets, declared>>
nodeVars == <<nodes, links, node, failed, call_kwargs>>
sceneVars == <<objects, next_object, active, object_name, doomed>>
parseVars == <<parse_args, parsed>>
facesVars == <<faces_args, faces>>
functionVars == <<sceneVars, parseVars, facesVars>>
notSceneVars == <<entityVars, tileVars, inputVars, nodeVars, parseVars, facesVars>>
notParseVars == <<entityVars, tileVars, inputVars, nodeVars, sceneVars, facesVars>>
notFacesVars == <<entityVars, tileVars, inputVars, nodeVars, sceneVars, parseVars>>
vars == <<pc, err, entityVars, tileVars, inputVars, nodeVars, functionVars>>

----------------------------------------------------------------------------
(* Bounds of the model. *)
MaxFrames == 3      \* frame counts 1..MaxFrames (and None)
MaxPoints == 3      \* entity counts 1..MaxPoints of Scatter / Arrows
MaxGrid == 2        \* grid sides 1..MaxGrid of Surface
MaxRank == 4        \* attribute arrays have at most MaxRank axes
MaxDim == 4         \* each axis of an attribute array has length 1..MaxDim
MaxElems == 48      \* attribute arrays have at most MaxElems elements

(* Python's None, where an integer may stand as well (n_frames): it equals *)
(* no dimension of any shape.                                              *)
None == -1

----------------------------------------------------------------------------
(* numpy *)

RECURSIVE Prod(_)
Prod(s) == IF s = <<>> THEN 1 ELSE Head(s) * Prod(Tail(s))

RECURSIVE Repeat(_, _)
Repeat(s, k) == IF k <= 0 THEN <<>> ELSE s \o Repeat(s, k - 1)

Ramp(shape, base) ==
    [shape |-> shape, data |-> [i \in 1..Prod(shape) |-> base + i]]

NoArray == [shape |-> <<None>>, data |-> <<>>]

\* a.reshape(shape): same elements in the same order
np_reshape(a, shape) == [shape |-> shape, data |-> a.data]

\* np.tile(a, reps) for reps = (k, 1, ..., 1), the only form the code uses:
\* a is promoted to len(reps) axes by prepending axes of length 1, then
\* repeated k times along the first axis.
np_tile(a, reps) ==
    LET promoted == IF Len(reps) > Len(a.shape)
                    THEN [i \in 1..(Len(reps) - Len(a.shape)) |-> 1] \o a.shape
                    ELSE a.shape
    IN [shape |-> <<reps[1] * promoted[1]>> \o Tail(promoted),
        data  |-> Repeat(a.data, reps[1])]

Ones(k) == [i \in 1..k |-> 1]

\* a[i] for an array with at least one axis (1-based i)
Row(a, i) ==
    LET rs == Tail(a.shape)
        n  == Prod(rs)
    IN [shape |-> rs, data |-> SubSeq(a.data, (i - 1) * n + 1, i * n)]

----------------------------------------------------------------------------
(* tile_data *)

ColorDims    == {<<3>>, <<4>>}
RotationDims == {<<3>>, <<3, 3>>}
ArrowsDims   == {<<3>>, <<>>}

Returned(out, ds, c) == [err |-> "none", out |-> out, dims |-> ds, case |-> c]
Raised(e) == [err |-> e, out |-> NoArray, dims |-> <<>>, case |-> 0]
NoReturn == Raised("not called")

n_points_of(ds) == Prod(ds)
n_vertices_of(nf, ds) == n_points_of(ds) * (IF nf = None THEN 1 ELSE nf)

\* the mutant passes a per-entity array through although the entity has frames
Plot_tile_data_untiled(nf, ds, a, vd) ==
    LET shape == a.shape
        n == Len(shape)
    IN  IF Len(ds) # 1 THEN Raised("NotImplementedError")
        ELSE IF n >= 2 /\ shape[1] = nf /\ shape[2] = n_points_of(ds)
                /\ SubSeq(shape, 3, n) \in vd
        THEN Returned(np_reshape(a, <<n_vertices_of(nf, ds)>> \o SubSeq(shape, 3, n)),
                      SubSeq(shape, 3, n), 1)
        ELSE IF n >= 1 /\ shape[1] = n_points_of(ds) /\ Tail(shape) \in vd
        THEN Returned(a, Tail(shape), 2)
        ELSE IF shape \in vd
        THEN Returned(np_tile(a, <<n_vertices_of(nf, ds)>> \o Ones(n)), shape, 3)
        ELSE Raised("ValueError")

\* Plot.tile_data with `case (n_points, *dims)`: a capture pattern, which binds
\* the leading dimension instead of comparing it with self.n_points.
Plot_tile_data_capture(nf, ds, a, vd) ==
    LET shape == a.shape
        n == Len(shape)
    IN  IF Len(ds) # 1 THEN Raised("NotImplementedError")
        ELSE IF n >= 2 /\ shape[1] = nf /\ shape[2] = n_points_of(ds)
                /\ SubSeq(shape, 3, n) \in vd
        THEN Returned(np_reshape(a, <<n_vertices_of(nf, ds)>> \o SubSeq(shape, 3, n)),
                      SubSeq(shape, 3, n), 1)
        ELSE IF n >= 1 /\ Tail(shape) \in vd
        THEN Returned(IF nf # None
                      THEN np_tile(a, <<nf>> \o Ones(Len(Tail(shape))))
                      ELSE a,
                      Tail(shape), 2)
        ELSE IF shape \in vd
        THEN Returned(np_tile(a, <<n_vertices_of(nf, ds)>> \o Ones(n)), shape, 3)
        ELSE Raised("ValueError")

\* Plot.tile_data tiling a per-entity array n_vertices times instead of n_frames times.
Plot_tile_data_overtile(nf, ds, a, vd) ==
    LET shape == a.shape
        n == Len(shape)
    IN  IF Len(ds) # 1 THEN Raised("NotImplementedError")
        ELSE IF n >= 2 /\ shape[1] = nf /\ shape[2] = n_points_of(ds)
                /\ SubSeq(shape, 3, n) \in vd
        THEN Returned(np_reshape(a, <<n_vertices_of(nf, ds)>> \o SubSeq(shape, 3, n)),
                      SubSeq(shape, 3, n), 1)
        ELSE IF n >= 1 /\ shape[1] = n_points_of(ds) /\ Tail(shape) \in vd
        THEN Returned(IF nf # None
                      THEN np_tile(a, <<n_vertices_of(nf, ds)>> \o Ones(Len(Tail(shape))))
                      ELSE a,
                      Tail(shape), 2)
        ELSE IF shape \in vd
        THEN Returned(np_tile(a, <<n_vertices_of(nf, ds)>> \o Ones(n)), shape, 3)
        ELSE Raised("ValueError")

Plot_tile_data(nf, ds, a, vd) ==
    LET shape == a.shape
        n == Len(shape)
    IN  IF Len(ds) # 1 THEN Raised("NotImplementedError")
        ELSE IF n >= 2 /\ shape[1] = nf /\ shape[2] = n_points_of(ds)
                /\ SubSeq(shape, 3, n) \in vd
        THEN Returned(np_reshape(a, <<n_vertices_of(nf, ds)>> \o SubSeq(shape, 3, n)),
                      SubSeq(shape, 3, n), 1)
        ELSE IF n >= 1 /\ shape[1] = n_points_of(ds) /\ Tail(shape) \in vd
        THEN Returned(IF nf # None
                      THEN np_tile(a, <<nf>> \o Ones(Len(Tail(shape))))
                      ELSE a,
                      Tail(shape), 2)
        ELSE IF shape \in vd
        THEN Returned(np_tile(a, <<n_vertices_of(nf, ds)>> \o Ones(n)), shape, 3)
        ELSE Raised("ValueError")

\* Scatter.tile_data replicating a single constant n_points times, frames forgotten.
Scatter_tile_data_noframes(nf, np, a, vd) ==
    LET shape == a.shape
        n == Len(shape)
    IN  IF n >= 2 /\ shape[1] = nf /\ shape[2] = np /\ SubSeq(shape, 3, n) \in vd
        THEN Returned(np_reshape(a, <<nf * np>> \o SubSeq(shape, 3, n)),
                      SubSeq(shape, 3, n), 1)
        ELSE IF n >= 1 /\ shape[1] = np /\ Tail(shape) \in vd
        THEN Returned(IF nf # None
                      THEN np_tile(a, <<nf>> \o Ones(Len(Tail(shape))))
                      ELSE a,
                      Tail(shape), 2)
        ELSE IF shape \in vd
        THEN LET n_points_total == np
             IN Returned(np_tile(a, <<n_points_total>> \o Ones(n)), shape, 3)
        ELSE Raised("ValueError")

\* Scatter.tile_data with the single-constant case tried before the per-entity case.
Scatter_tile_data_swapped(nf, np, a, vd) ==
    LET shape == a.shape
        n == Len(shape)
    IN  IF n >= 2 /\ shape[1] = nf /\ shape[2] = np /\ SubSeq(shape, 3, n) \in vd
        THEN Returned(np_reshape(a, <<nf * np>> \o SubSeq(shape, 3, n)),
                      SubSeq(shape, 3, n), 1)
        ELSE IF shape \in vd
        THEN LET n_points_total == np * (IF nf = None THEN 1 ELSE nf)
             IN Returned(np_tile(a, <<n_points_total>> \o Ones(n)), shape, 3)
        ELSE IF n >= 1 /\ shape[1] = np /\ Tail(shape) \in vd
        THEN Returned(IF nf # None
                      THEN np_tile(a, <<nf>> \o Ones(Len(Tail(shape))))
                      ELSE a,
                      Tail(shape), 2)
        ELSE Raised("ValueError")

Scatter_tile_data(nf, np, a, vd) ==
    LET shape == a.shape
        n == Len(shape)
    IN  IF n >= 2 /\ shape[1] = nf /\ shape[2] = np /\ SubSeq(shape, 3, n) \in vd
        THEN Returned(np_reshape(a, <<nf * np>> \o SubSeq(shape, 3, n)),
                      SubSeq(shape, 3, n), 1)
        ELSE IF n >= 1 /\ shape[1] = np /\ Tail(shape) \in vd
        THEN Returned(IF nf # None
                      THEN np_tile(a, <<nf>> \o Ones(Len(Tail(shape))))
                      ELSE a,
                      Tail(shape), 2)
        ELSE IF shape \in vd
        THEN LET n_points_total == np * (IF nf = None THEN 1 ELSE nf)
             IN Returned(np_tile(a, <<n_points_total>> \o Ones(n)), shape, 3)
        ELSE Raised("ValueError")

\* Surface.tile_data repeating each entity's row n_frames times (np.repeat)
\* where the code repeats the block of all entities (np.tile).
Surface_tile_data_repeat(nf, ds, a, vd) ==
    LET shape == a.shape
        n == Len(shape)
        n_points_x == ds[1]
        n_points_y == ds[2]
    IN  IF n >= 3 /\ shape[1] = nf /\ shape[2] = n_points_x /\ shape[3] = n_points_y
           /\ SubSeq(shape, 4, n) \in vd
        THEN Returned(np_reshape(a, <<nf * n_points_of(ds)>> \o SubSeq(shape, 4, n)),
                      SubSeq(shape, 4, n), 1)
        ELSE IF n >= 2 /\ shape[1] = n_points_x /\ shape[2] = n_points_y
                /\ SubSeq(shape, 3, n) \in vd
        THEN LET tr == SubSeq(shape, 3, n)
                 w  == Prod(tr)
             IN Returned(IF nf # None
                         THEN [shape |-> <<nf * n_points_x * n_points_y>> \o tr,
                               data  |-> [j \in 1..(nf * Len(a.data)) |->
                                            a.data[(((j - 1) \div w) \div nf) * w
                                                   + ((j - 1) % w) + 1]]]
                         ELSE np_reshape(a, <<n_vertices_of(nf, ds)>> \o tr),
                         tr, 2)
        ELSE IF shape \in vd
        THEN Returned(np_tile(a, <<n_vertices_of(nf, ds)>> \o Ones(n)), shape, 3)
        ELSE Raised("ValueError")

Surface_tile_data(nf, ds, a, vd) ==
    LET shape == a.shape
        n == Len(shape)
        n_points_x == ds[1]
        n_points_y == ds[2]
    IN  IF n >= 3 /\ shape[1] = nf /\ shape[2] = n_points_x /\ shape[3] = n_points_y
           /\ SubSeq(shape, 4, n) \in vd
        THEN Returned(np_reshape(a, <<nf * n_points_of(ds)>> \o SubSeq(shape, 4, n)),
                      SubSeq(shape, 4, n), 1)
        ELSE IF n >= 2 /\ shape[1] = n_points_x /\ shape[2] = n_points_y
                /\ SubSeq(shape, 3, n) \in vd
        THEN LET tr == SubSeq(shape, 3, n)
             IN Returned(IF nf # None
                         THEN np_tile(np_reshape(a, <<n_points_x * n_points_y>> \o tr),
                                      <<nf>> \o Ones(Len(tr)))
                         ELSE np_reshape(a, <<n_vertices_of(nf, ds)>> \o tr),
                         tr, 2)
        ELSE IF shape \in vd
        THEN Returned(np_tile(a, <<n_vertices_of(nf, ds)>> \o Ones(n)), shape, 3)
        ELSE Raised("ValueError")

\* self.tile_data(...): dispatch on the class of self
tile_data(c, nf, ds, a, vd) ==
    CASE c = "Scatter" -> Scatter_tile_data(nf, ds[1], a, vd)
      [] c = "Surface" -> Surface_tile_data(nf, ds, a, vd)
      [] OTHER         -> Plot_tile_data(nf, ds, a, vd)

----------------------------------------------------------------------------
(* Nodes: the backend's node types, as far as new_node looks at them *)

\* an input socket: its name (as words), whether it has a default_value
\* (geometry sockets have none) and whether it takes several links
Value(name) == [name |-> name, has_default |-> TRUE, multi_input |-> FALSE]
Geometry(name) == [name |-> name, has_default |-> FALSE, multi_input |-> FALSE]
MultiGeometry(name) == [name |-> name, has_default |-> FALSE, multi_input |-> TRUE]

\* input sockets of a node type, in order
NodeInputs(t) ==
    CASE t = "GeometryNodeMeshToPoints" ->
             << Geometry(<<"Mesh">>), Value(<<"Selection">>), Value(<<"Position">>),
                Value(<<"Radius">>) >>
      [] t = "GeometryNodeInputNamedAttribute" -> << Value(<<"Name">>) >>
      [] t = "ShaderNodeMath" ->
             << Value(<<"Value">>), Value(<<"Value">>), Value(<<"Value">>) >>
      [] t = "ShaderNodeVectorMath" ->
             << Value(<<"Vector">>), Value(<<"Vector">>), Value(<<"Vector">>),
                Value(<<"Scale">>) >>
      [] t = "FunctionNodeAlignEulerToVector" ->
             << Value(<<"Rotation">>), Value(<<"Factor">>), Value(<<"Vector">>) >>
      [] t = "GeometryNodeMeshCylinder" ->
             << Value(<<"Vertices">>), Value(<<"Side", "Segments">>),
                Value(<<"Fill", "Segments">>), Value(<<"Radius">>), Value(<<"Depth">>) >>
      [] t = "GeometryNodeMeshCone" ->
             << Value(<<"Vertices">>), Value(<<"Side", "Segments">>),
                Value(<<"Fill", "Segments">>), Value(<<"Radius", "Top">>),
                Value(<<"Radius", "Bottom">>), Value(<<"Depth">>) >>
      [] t = "GeometryNodeMeshCube" ->
             << Value(<<"Size">>), Value(<<"Vertices", "X">>), Value(<<"Vertices", "Y">>),
                Value(<<"Vertices", "Z">>) >>
      [] t = "GeometryNodeTransform" ->
             << Geometry(<<"Geometry">>), Value(<<"Translation">>), Value(<<"Rotation">>),
                Value(<<"Scale">>) >>
      [] t = "GeometryNodeSetMaterial" ->
             << Geometry(<<"Geometry">>), Value(<<"Selection">>), Value(<<"Material">>) >>
      [] t = "GeometryNodeInstanceOnPoints" ->
             << Geometry(<<"Points">>), Value(<<"Selection">>), Geometry(<<"Instance">>),
                Value(<<"Pick", "Instance">>), Value(<<"Instance", "Index">>),
                Value(<<"Rotation">>), Value(<<"Scale">>) >>
      [] t = "GeometryNodeTranslateInstances" ->
             << Geometry(<<"Instances">>), Value(<<"Selection">>), Value(<<"Translation">>),
                Value(<<"Local", "Space">>) >>
      [] t = "ShaderNodeCombineXYZ" -> << Value(<<"X">>), Value(<<"Y">>), Value(<<"Z">>) >>
      [] t = "GeometryNodeRealizeInstances" -> << Geometry(<<"Geometry">>) >>
      [] t = "GeometryNodeJoinGeometry" -> << MultiGeometry(<<"Geometry">>) >>
      [] t = "GeometryNodeSeparateGeometry" ->
             << Geometry(<<"Geometry">>), Value(<<"Selection">>) >>
      [] t = "NodeGroupOutput" -> << Geometry(<<"Geometry">>) >>
      [] OTHER -> << >>

\* attributes of a node of the type that hasattr finds (split at "_")
NodeAttributes(t) ==
    {<<"name">>, <<"label">>} \cup
    CASE t = "GeometryNodeMeshToPoints" -> {<<"mode">>}
      [] t = "GeometryNodeInputNamedAttribute" -> {<<"data", "type">>}
      [] t \in {"ShaderNodeMath", "ShaderNodeVectorMath"} -> {<<"operation">>}
      [] t = "FunctionNodeAlignEulerToVector" -> {<<"axis">>}
      [] t = "GeometryNodeSeparateGeometry" -> {<<"domain">>}
      [] t = "NodeGroupOutput" -> {<<"is", "active", "output">>}
      [] OTHER -> {}

KnownNodeTypes ==
    {"NodeGroupInput", "NodeGroupOutput", "GeometryNodeMeshToPoints",
     "GeometryNodeInputNamedAttribute", "ShaderNodeMath", "ShaderNodeVectorMath",
     "FunctionNodeAlignEulerToVector", "GeometryNodeMeshCylinder", "GeometryNodeMeshCone",
     "GeometryNodeMeshCube", "GeometryNodeTransform", "GeometryNodeSetMaterial",
     "GeometryNodeInstanceOnPoints", "GeometryNodeTranslateInstances",
     "ShaderNodeCombineXYZ", "GeometryNodeRealizeInstances", "GeometryNodeJoinGeometry",
     "GeometryNodeSeparateGeometry"}

NewNodeOfType(t) == [type |-> t, set |-> {}]

\* node_linker.group_input.outputs["Geometry"]
GroupInputGeometry == [node |-> 1, output |-> "Geometry"]

\* values of keyword arguments: None, a constant, an output socket
NoneValue == [kind |-> "None", node |-> 0, output |-> ""]
Constant == [kind |-> "constant", node |-> 0, output |-> ""]
SocketValue(h) == [kind |-> "NodeSocket", node |-> h.node, output |-> h.output]

NoBinding == [key |-> <<>>, value |-> NoneValue]

\* str.capitalize, str.isdigit and int on the words of the keys in use
Capitalize(w) ==
    CASE w = "mesh" -> "Mesh" [] w = "radius" -> "Radius" [] w = "mode" -> "Mode"
      [] w = "bogus" -> "Bogus" [] w = "input" -> "Input" [] w = "label" -> "Label"
      [] w = "geometry" -> "Geometry" [] w = "data" -> "Data" [] w = "type" -> "Type"
      [] w = "name" -> "Name" [] w = "operation" -> "Operation" [] w = "vector" -> "Vector"
      [] w = "axis" -> "Axis" [] w = "depth" -> "Depth" [] w = "translation" -> "Translation"
      [] w = "material" -> "Material" [] w = "points" -> "Points"
      [] w = "selection" -> "Selection" [] w = "instance" -> "Instance"
      [] w = "instances" -> "Instances" [] w = "rotation" -> "Rotation"
      [] w = "scale" -> "Scale" [] w = "bottom" -> "Bottom"
      [] w = "x" -> "X" [] w = "y" -> "Y" [] w = "z" -> "Z" [] OTHER -> w
isdigit(w) == w \in {"0", "1", "2", "7"}
int(w) == CASE w = "0" -> 0 [] w = "1" -> 1 [] w = "2" -> 2 [] OTHER -> 7

\* python_arg_to_blender_key(arg): each word capitalized (joined by ' ')
python_arg_to_blender_key(key) == [i \in 1..Len(key) |-> Capitalize(key[i])]

\* key.split("_") matched against ["input", i] if i.isdigit()
blender_key_of(key) ==
    IF Len(key) = 2 /\ key[1] = "input" /\ isdigit(key[2])
    THEN [is_int |-> TRUE, i |-> int(key[2]), name |-> <<>>]
    ELSE [is_int |-> FALSE, i |-> 0, name |-> python_arg_to_blender_key(key)]

\* blender_key in node.inputs (a name) / node.inputs[blender_key] exists
InInputs(t, bk) ==
    IF bk.is_int THEN bk.i < Len(NodeInputs(t))
    ELSE \E k \in 1..Len(NodeInputs(t)) : NodeInputs(t)[k].name = bk.name

\* the 0-based index of node.inputs[blender_key]
InputIndex(t, bk) ==
    IF bk.is_int THEN bk.i
    ELSE (CHOOSE k \in 1..Len(NodeInputs(t)) :
              /\ NodeInputs(t)[k].name = bk.name
              /\ \A j \in 1..(k - 1) : NodeInputs(t)[j].name # bk.name) - 1

\* the error node.inputs[blender_key] raises when there is no such socket
LookupError(bk) == IF bk.is_int THEN "IndexError" ELSE "KeyError"

\* node_group.links.new(from_socket, to_socket): a socket that is no
\* multi-input socket keeps one link, the new one
link(ls, from_socket, to_node, to_input, multi_input) ==
    {l \in ls : multi_input \/ l.to_node # to_node \/ l.to_input # to_input}
        \cup {[from |-> from_socket, to_node |-> to_node, to_input |-> to_input]}

\* the mutant undoes what the call has done to its node when a binding raises
ApplyBinding_rollback(st, idx, b) ==
    LET t  == st.nodes[idx].type
        bk == blender_key_of(b.key)
        setv(e) == [st EXCEPT !.nodes[idx].set = @ \cup {e}]
        raise(e) == [st EXCEPT !.err = e, !.failed = b, !.nodes[idx].set = {},
                               !.links = {l \in @ : l.to_node # idx}]
    IN  IF b.value.kind = "None" THEN st
        ELSE IF b.value.kind = "NodeSocket"
        THEN IF InInputs(t, bk)
             THEN [st EXCEPT !.links =
                      link(@, [node |-> b.value.node, output |-> b.value.output],
                           idx, InputIndex(t, bk),
                           NodeInputs(t)[InputIndex(t, bk) + 1].multi_input)]
             ELSE raise(LookupError(bk))
        ELSE IF bk.is_int /\ ~InInputs(t, bk) THEN raise("IndexError")
        ELSE IF InInputs(t, bk) /\ NodeInputs(t)[InputIndex(t, bk) + 1].has_default
        THEN setv([kind |-> "default_value", input |-> InputIndex(t, bk), attr |-> <<>>])
        ELSE IF b.key \in NodeAttributes(t)
        THEN setv([kind |-> "setattr", input |-> 0, attr |-> b.key])
        ELSE raise("ValueError")

\* one iteration of the loop over kwargs.items() on node idx; st holds the
\* nodes and links so far
ApplyBinding(st, idx, b) ==
    LET t  == st.nodes[idx].type
        bk == blender_key_of(b.key)
        setv(e) == [st EXCEPT !.nodes[idx].set = @ \cup {e}]
        raise(e) == [st EXCEPT !.err = e, !.failed = b]
    IN  IF b.value.kind = "None" THEN st
        ELSE IF b.value.kind = "NodeSocket"
        THEN IF InInputs(t, bk)
             THEN [st EXCEPT !.links =
                      link(@, [node |-> b.value.node, output |-> b.value.output],
                           idx, InputIndex(t, bk),
                           NodeInputs(t)[InputIndex(t, bk) + 1].multi_input)]
             ELSE raise(LookupError(bk))
        ELSE IF bk.is_int /\ ~InInputs(t, bk) THEN raise("IndexError")
        ELSE IF InInputs(t, bk) /\ NodeInputs(t)[InputIndex(t, bk) + 1].has_default
        THEN setv([kind |-> "default_value", input |-> InputIndex(t, bk), attr |-> <<>>])
        ELSE IF b.key \in NodeAttributes(t)
        THEN setv([kind |-> "setattr", input |-> 0, attr |-> b.key])
        ELSE raise("ValueError")

RECURSIVE ApplyBindings(_, _, _, _)
ApplyBindings(st, idx, kwargs, i) ==
    IF i > Len(kwargs) THEN st
    ELSE LET r == ApplyBinding(st, idx, kwargs[i])
         IN IF r.err # "none" THEN r ELSE ApplyBindings(r, idx, kwargs, i + 1)

----------------------------------------------------------------------------
(* The node group's interface and NodeLinker.input_sockets *)

\* socket_input_key(i): the prefix and the number the f-string formats
socket_input_key(i) == <<IF version >= 4 THEN "Socket_" ELSE "Input_", i>>

\* The identifier the backend gives an interface socket: "Input_<n>" before
\* Blender 4, "Socket_<n>" from 4.0 on, n counting every socket of the
\* group's interface in creation order from 0 (hence "# Input_2", "starts at 2"
\* after the Geometry input and the Geometry output).
BackendIdentifier(n) == <<IF version >= 4 THEN "Socket_" ELSE "Input_", n>>

SocketNames == {"Point Color", "Point Instance", "Scale"}
SocketTypes == {"NodeSocketMaterial", "NodeSocketObject"}

NoKey == <<"", None>>
EmptyDict == [n \in SocketNames |-> NoKey]
DictLen(d) == Cardinality({n \in DOMAIN d : d[n] # NoKey})

InterfaceSocket(name, type, n, by) ==
    [name |-> name, type |-> type, identifier |-> BackendIdentifier(n), by |-> by]

\* The node group and the NodeLinker on it, as one record: the group's
\* interface inputs, nodes and links, the NodeLinker's input_sockets, and what
\* the last call on the NodeLinker did.
Linker ==
    [group_inputs |-> group_inputs, next_id |-> next_id,
     input_sockets |-> input_sockets, declared |-> declared,
     nodes |-> nodes, links |-> links, node |-> node, err |-> err, failed |-> failed]

LinkerIs(st) ==
    /\ group_inputs = st.group_inputs
    /\ next_id = st.next_id
    /\ input_sockets = st.input_sockets
    /\ declared = st.declared
    /\ nodes = st.nodes
    /\ links = st.links
    /\ node = st.node
    /\ err = st.err
    /\ failed = st.failed

\* the node group and the NodeLinker become those of st
SetGraph(st) ==
    /\ group_inputs' = st.group_inputs
    /\ next_id' = st.next_id
    /\ input_sockets' = st.input_sockets
    /\ declared' = st.declared
    /\ nodes' = st.nodes
    /\ links' = st.links
    /\ node' = st.node
    /\ failed' = st.failed

SetLinker(st) == SetGraph(st) /\ err' = st.err

\* no node group, no NodeLinker
NoLinker ==
    [group_inputs |-> <<>>, next_id |-> 0, input_sockets |-> EmptyDict, declared |-> <<>>,
     nodes |-> <<>>, links |-> {}, node |-> 0, err |-> "none", failed |-> NoBinding]

\* NodeLinker(node_group): a new NodeLinker on the group of st
NodeLinker(st) == [st EXCEPT !.input_sockets = EmptyDict, !.declared = <<>>]

\* get_node_linker(modifier): a modifier without node group gets a group with
\* the Geometry input (socket 0), the Geometry output (socket 1), the Group
\* Input and Group Output nodes and the link between them
get_node_linker(st, has_node_group) ==
    IF has_node_group THEN NodeLinker(st)
    ELSE NodeLinker(
           [st EXCEPT
              !.group_inputs = <<InterfaceSocket("Geometry", "NodeSocketGeometry", 0,
                                                 "get_node_linker")>>,
              !.next_id = 2,
              !.nodes = <<NewNodeOfType("NodeGroupInput"), NewNodeOfType("NodeGroupOutput")>>,
              !.links = {[from |-> GroupInputGeometry, to_node |-> 2, to_input |-> 0]}])

\* NodeLinker.new_input_socket(name, socket_type)
new_input_socket(st, name, socket_type) ==
    LET socket_index == DictLen(st.input_sockets) + 2
    IN [st EXCEPT
          !.group_inputs = Append(@, InterfaceSocket(name, socket_type, st.next_id,
                                                     "new_input_socket")),
          !.next_id = @ + 1,
          !.input_sockets[name] = socket_input_key(socket_index),
          !.declared = Append(@, [name |-> name,
                                  key |-> socket_input_key(socket_index),
                                  identifier |-> BackendIdentifier(st.next_id)]),
          !.err = "none"]

\* NodeLinker.new_input(input_type, input_name): node_group.inputs exists
\* before Blender 4 only
new_input(st, input_type, input_name) ==
    IF version >= 4 THEN [st EXCEPT !.err = "AttributeError"]
    ELSE [st EXCEPT
            !.group_inputs = Append(@, InterfaceSocket(input_name, input_type, st.next_id,
                                                       "new_input")),
            !.next_id = @ + 1,
            !.err = "none"]

----------------------------------------------------------------------------
(* NodeLinker.new_node *)

\* the Group Output node of the group
GroupOutputIndex(ns) == CHOOSE k \in 1..Len(ns) : ns[k].type = "NodeGroupOutput"

\* the mutant creates a node for every type, NodeGroupOutput included
new_node_always_new(st, node_type, kwargs) ==
    IF node_type \notin KnownNodeTypes
    THEN [st EXCEPT !.err = "RuntimeError", !.node = 0]
    ELSE ApplyBindings([st EXCEPT !.nodes = Append(st.nodes, NewNodeOfType(node_type)),
                                  !.node = Len(st.nodes) + 1, !.err = "none",
                                  !.failed = NoBinding],
                       Len(st.nodes) + 1, kwargs, 1)

\* NodeLinker.new_node(node_type, **kwargs) on the nodes and links of st:
\* the node is created (the Group Output node fetched), then the keyword
\* arguments are applied in order up to the first that raises
new_node(st, node_type, kwargs) ==
    IF node_type \notin KnownNodeTypes
    THEN \* node_group.nodes.new raises for a type the backend does not know
         [st EXCEPT !.err = "RuntimeError", !.node = 0]
    ELSE LET fetched == node_type = "NodeGroupOutput"
             idx == IF fetched THEN GroupOutputIndex(st.nodes) ELSE Len(st.nodes) + 1
             ns  == IF fetched THEN st.nodes ELSE Append(st.nodes, NewNodeOfType(node_type))
         IN ApplyBindings([st EXCEPT !.nodes = ns, !.node = idx, !.err = "none",
                                     !.failed = NoBinding],
                          idx, kwargs, 1)

MaxNodes == 1       \* at most MaxNodes new_node calls create a node
MaxBindings == 2    \* a new_node call carries at most MaxBindings keyword arguments

NodeTypesInUse == {"GeometryNodeMeshToPoints", "ShaderNodeMath", "NodeGroupOutput", "NoSuchNode"}
KeysInUse == {<<"mesh">>, <<"radius">>, <<"mode">>, <<"bogus">>, <<"input", "0">>, <<"input", "7">>}
ValuesInUse == {NoneValue, Constant, SocketValue(GroupInputGeometry)}
BindingsInUse == {[key |-> key, value |-> value] : key \in KeysInUse, value \in ValuesInUse}

\* A new_node call, one step per keyword argument. The call starts: the
\* node is created or fetched.
NewNode ==
    /\ pc = "linker"
    /\ \E node_type \in NodeTypesInUse :
           /\ node_type \notin {"NodeGroupOutput", "NoSuchNode"} => Len(nodes) < 2 + MaxNodes
           /\ SetLinker(new_node(Linker, node_type, <<>>))
           /\ pc' = IF node_type \in KnownNodeTypes THEN "new_node" ELSE "linker"
    /\ call_kwargs' = <<>>
    /\ UNCHANGED <<version, entityVars, tileVars, functionVars>>

\* The next keyword argument of the call is applied; the call ends when it raises.
NewNodeKwarg ==
    /\ pc = "new_node"
    /\ Len(call_kwargs) < MaxBindings
    /\ \E b \in BindingsInUse :
           /\ \A i \in 1..Len(call_kwargs) : call_kwargs[i].key # b.key
           /\ SetLinker(ApplyBinding(Linker, node, b))
           /\ call_kwargs' = Append(call_kwargs, b)
    /\ pc' = IF err' = "none" THEN "new_node" ELSE "linker"
    /\ UNCHANGED <<version, entityVars, tileVars, functionVars>>

\* The keyword arguments are exhausted: the call returns the node.
NewNodeReturn ==
    /\ pc = "new_node"
    /\ pc' = "linker"
    /\ UNCHANGED <<err, call_kwargs, nodes, links, node, failed, entityVars, tileVars, inputVars,
                   functionVars>>

MaxInputs == 3      \* at most MaxInputs sockets are added to the interface

NewInputSocket ==
    /\ pc = "linker"
    /\ Len(group_inputs) <= MaxInputs
    /\ \E name \in SocketNames, socket_type \in SocketTypes :
           SetLinker(new_input_socket(Linker, name, socket_type))
    /\ UNCHANGED <<pc, version, call_kwargs, entityVars, tileVars, functionVars>>

NewInput ==
    /\ pc = "linker"
    /\ Len(group_inputs) <= MaxInputs
    /\ \E input_type \in SocketTypes, input_name \in SocketNames :
           SetLinker(new_input(Linker, input_type, input_name))
    /\ UNCHANGED <<pc, version, call_kwargs, entityVars, tileVars, functionVars>>

\* no object in bpy.data.objects, no new_empty call
NoObjects ==
    /\ objects = {}
    /\ next_object = 1
    /\ active = 0
    /\ object_name = ""
    /\ doomed = {}

\* no get_points_array call
NoParse ==
    /\ parse_args = [module |-> "", x |-> NoArray, y |-> NoArray, z |-> NoArray, n_dims |-> 0]
    /\ parsed = [err |-> "not called", points |-> NoArray, n_frames |-> None, dims |-> <<>>]

\* no get_faces call
NoFaces ==
    /\ faces_args = [n_points_x |-> 0, n_points_y |-> 0, n_frames |-> 0]
    /\ faces = <<>>

\* none of the module-level functions specified on their own is running
NoFunctionCall == NoObjects /\ NoParse /\ NoFaces

\* no modifier, no node group, no NodeLinker
NoNodeGroup ==
    /\ version = 3
    /\ LinkerIs(NoLinker)
    /\ call_kwargs = <<>>

AttributeNames == {"frame_index", "marker_color", "marker_rotation", "arrows"}

NoArgs ==
    [x |-> NoArray, color |-> NoArray, vector |-> NoArray, end |-> NoArray,
     marker_type |-> "None", marker_rotation |-> NoArray]
NoMesh == [exists |-> FALSE, vertices |-> NoArray, faces |-> <<>>]
NoAttributes == [a \in AttributeNames |-> NoArray]
NoModifier == [exists |-> FALSE, has_node_group |-> FALSE, params |-> {}]
\* no action on the node group
NoFcurve == [node |-> 0, co |-> <<>>]

NoConstruction == [shape |-> <<None>>, n_frames |-> None, dims |-> <<>>]

\* nothing stored in the entity, nothing of it in the backend
NothingBuilt ==
    /\ points = NoArray
    /\ color = NoArray
    /\ arrows = NoArray
    /\ marker_rotation = NoArray
    /\ color_material = 0
    /\ marker_modifier = FALSE
    /\ mesh = NoMesh
    /\ attributes = NoAttributes
    /\ materials = <<>>
    /\ modifier = NoModifier
    /\ frame_end = None
    /\ fcurve = NoFcurve
    /\ constructed = NoConstruction
    /\ log = <<>>
    /\ op = ""
    /\ raised_in = ""
    /\ updates = 0

NoEntity ==
    /\ cls = "none"
    /\ n_frames = None
    /\ dims = <<>>
    /\ args = NoArgs
    /\ scene = [object |-> "none", deleted |-> FALSE]
    /\ NothingBuilt

NoTile == data_array = NoArray /\ valid_dims = {} /\ ret = NoReturn /\ ret2 = NoReturn

InitInputs ==
    /\ pc = "linker"
    /\ version \in {3, 4}
    /\ LinkerIs(get_node_linker(NoLinker, FALSE))
    /\ call_kwargs = <<>>
    /\ NoEntity
    /\ NoTile
    /\ NoFunctionCall

NextInputs == NewInputSocket \/ NewInput

SpecInputs == InitInputs /\ [][NextInputs]_vars

NextNodes == NewNode \/ NewNodeKwarg \/ NewNodeReturn

SpecNodes == InitInputs /\ [][NextNodes]_vars

----------------------------------------------------------------------------
(* Specification of tile_data as a function: an entity whose frame count   *)
(* and entity dims are locked receives one attribute array, and then its   *)
(* own output again.                                                       *)

RECURSIVE ShapesOfRank(_)
ShapesOfRank(k) ==
    IF k = 0 THEN {<<>>}
    ELSE {<<d>> \o s : d \in 1..MaxDim, s \in ShapesOfRank(k - 1)}

Shapes == {s \in UNION {ShapesOfRank(k) : k \in 0..MaxRank} : Prod(s) <= MaxElems}

\* the accepted trailing shapes each class passes to its tile_data
ValidDimsInUse(c) ==
    CASE c = "Scatter" -> {ColorDims, RotationDims}
      [] c = "Arrows"  -> {ColorDims, ArrowsDims}
      [] OTHER         -> {ColorDims}

EntityDims(c) ==
    IF c = "Surface" THEN {<<m, n>> : m \in 1..MaxGrid, n \in 1..MaxGrid}
    ELSE {<<n>> : n \in 1..MaxPoints}

InitTile ==
    /\ pc = "tile"
    /\ cls \in {"Scatter", "Arrows", "Surface"}
    /\ n_frames \in {None} \cup (1..MaxFrames)
    /\ dims \in EntityDims(cls)
    /\ valid_dims \in ValidDimsInUse(cls)
    /\ data_array \in {Ramp(s, 0) : s \in Shapes}
    /\ ret = NoReturn
    /\ ret2 = NoReturn
    /\ NoNodeGroup
    /\ args = NoArgs
    /\ scene = [object |-> "none", deleted |-> FALSE]
    /\ NothingBuilt
    /\ NoFunctionCall

Tile ==
    /\ pc = "tile"
    /\ ret' = tile_data(cls, n_frames, dims, data_array, valid_dims)
    /\ pc' = "tiled"
    /\ err' = ret'.err
    /\ UNCHANGED <<entityVars, data_array, valid_dims, ret2, inputVars, nodeVars, functionVars>>

TileAgain ==
    /\ pc = "tiled"
    /\ ret.err = "none"
    /\ ret2' = tile_data(cls, n_frames, dims, ret.out, valid_dims)
    /\ pc' = "retiled"
    /\ err' = ret2'.err
    /\ UNCHANGED <<entityVars, data_array, valid_dims, ret, inputVars, nodeVars, functionVars>>

NextTile == Tile \/ TileAgain

SpecTile == InitTile /\ [][NextTile]_vars

----------------------------------------------------------------------------
(* The entity classes: what the setters and their update methods do to the  *)
(* entity and to its backend objects.                                       *)

\* len(a): the length of the first axis (0 for no data)
len(a) == IF a = NoArray THEN 0 ELSE a.shape[1]

\* a.reshape(-1, 3)
reshape_xyz(a) == np_reshape(a, <<Prod(a.shape) \div 3, 3>>)

\* the rows a[0], a[1], ... of an array as one sequence of row data
RowData(a, i) == Row(a, i).data

RECURSIVE Concat(_)
Concat(seqs) == IF seqs = <<>> THEN <<>> ELSE Head(seqs) \o Concat(Tail(seqs))

\* np.hstack([color, np.ones((len(color), 1))])
hstack_ones(a) ==
    [shape |-> <<a.shape[1], a.shape[2] + 1>>,
     data  |-> Concat([i \in 1..a.shape[1] |-> RowData(a, i) \o <<1>>])]

\* the mutant leaves out the transposition: np.array([arrows] * 3)
triple_untransposed(a) ==
    [shape |-> <<3, a.shape[1]>>, data |-> a.data \o a.data \o a.data]

\* np.array([arrows] * 3).T for a one-axis array
triple_T(a) ==
    [shape |-> <<a.shape[1], 3>>,
     data  |-> Concat([i \in 1..a.shape[1] |-> <<a.data[i], a.data[i], a.data[i]>>])]

\* end - start, for arrays of one shape
minus(a, b) == [shape |-> a.shape, data |-> [i \in 1..Len(a.data) |-> a.data[i] - b.data[i]]]

\* np.array(mu.Matrix(r).to_euler()): mathutils is no part of the repository;
\* an angle is kept as a code of the matrix it was computed from and its axis
to_euler(r) == [k \in 1..3 |-> 10000 * k + r[1]]

\* np.stack([... for r in marker_rotation])
stack_to_euler(a) ==
    [shape |-> <<a.shape[1], 3>>,
     data  |-> Concat([i \in 1..a.shape[1] |-> to_euler(RowData(a, i))])]

\* the mutant tiles the frame numbers: 0, 1, ..., n_frames - 1, 0, 1, ...
frame_index_values_tiled(nf, np) ==
    [shape |-> <<nf * np>>, data |-> [i \in 1..(nf * np) |-> (i - 1) % nf]]

\* np.arange(0, n_frames)[None].repeat(n_points, axis=1).reshape(-1)
frame_index_values(nf, np) ==
    [shape |-> <<nf * np>>, data |-> [i \in 1..(nf * np) |-> (i - 1) \div np]]

\* bu.set_vertex_attribute(mesh, name, values): the attribute is created if
\* missing; foreach_set raises when the flat array has another length than
\* the attribute (width values per vertex)
set_vertex_attribute(b, name, values, width) ==
    IF Prod(values.shape) # len(b.mesh.vertices) * width
    THEN [b EXCEPT !.err = "TypeError", !.raised_in = "foreach_set"]
    ELSE [b EXCEPT !.attributes[name] = values]

\* set_vertex_colors(mesh, color)
set_vertex_colors(b, c) ==
    IF c.shape[2] \notin {3, 4}
    THEN [b EXCEPT !.err = "ValueError", !.raised_in = "set_vertex_colors"]
    ELSE LET rgba == IF c.shape[2] = 3 THEN hstack_ones(c) ELSE c
         IN IF len(b.mesh.vertices) # len(rgba)
            THEN [b EXCEPT !.err = "ValueError", !.raised_in = "set_vertex_colors"]
            ELSE [b EXCEPT !.attributes["marker_color"] = rgba]

\* get_vertex_color_material() and mesh.materials.append(material): the new
\* material is the next of bpy.data.materials
append_color_material(b) ==
    [b EXCEPT !.color_material = Len(b.materials) + 1,
              !.materials = Append(@, Len(b.materials) + 1)]

\* modifier[key] = value
set_parameter(params, key, value) == {q \in params : q[1] # key} \cup {<<key, value>>}

\* the entity's fields and backend objects the update methods work on, as one record
Backend ==
    [mesh |-> mesh, attributes |-> attributes, materials |-> materials,
     modifier |-> modifier, scene |-> scene, color_material |-> color_material,
     err |-> "none", raised_in |-> ""]

SetBackend(b) ==
    /\ mesh' = b.mesh
    /\ attributes' = b.attributes
    /\ materials' = b.materials
    /\ modifier' = b.modifier
    /\ scene' = b.scene
    /\ color_material' = b.color_material
    /\ err' = b.err
    /\ raised_in' = b.raised_in

\* bu.new_empty(name, mesh): an object of that name is deleted first
new_empty(sc) == [object |-> "own", deleted |-> sc.deleted \/ sc.object = "previous"]

\* the mutant keeps the cell that wraps from the end of a row to the next row
get_faces_wrapping(n_points_x, n_points_y, nf) ==
    LET is == [k \in 1..(n_points_x * (n_points_y - 1)) |-> k - 1]
        face(j, i) == [k \in 1..4 |-> j * n_points_x * n_points_y
                                        + <<i, i + 1, i + n_points_x + 1, i + n_points_x>>[k]]
    IN [q \in 1..(nf * Len(is)) |->
           face((q - 1) \div Len(is), is[((q - 1) % Len(is)) + 1])]

\* get_faces(n_points_x, n_points_y, n_frames).reshape(-1, 4)
get_faces(n_points_x, n_points_y, nf) ==
    LET is == SelectSeq([k \in 1..(n_points_x * (n_points_y - 1)) |-> k - 1],
                        LAMBDA i : (i + 1) % n_points_x # 0)
        face(j, i) == [k \in 1..4 |-> j * n_points_x * n_points_y
                                        + <<i, i + 1, i + n_points_x + 1, i + n_points_x>>[k]]
    IN [q \in 1..(nf * Len(is)) |->
           face((q - 1) \div Len(is), is[((q - 1) % Len(is)) + 1])]

\* self.get_geometry()[2] of Arrows and of Surface
get_geometry_faces(c, nf, ds) ==
    IF c = "Surface" THEN get_faces(ds[1], ds[2], IF nf = None THEN 1 ELSE nf) ELSE <<>>

\* the mutant accepts any length of the last axis of a static array
Plot_get_points_array_any_trailing(x, n_dims) ==
    LET s == x.shape
        k == Len(s)
    IN  IF s = <<3>>
        THEN [err |-> "none", points |-> np_reshape(x, <<1, 1, 3>>), n_frames |-> None,
              dims |-> Ones(n_dims)]
        ELSE IF k = n_dims + 1
        THEN [err |-> "none", points |-> x, n_frames |-> None, dims |-> SubSeq(s, 1, k - 1)]
        ELSE IF k = n_dims + 2 /\ s[k] = 3
        THEN [err |-> "none", points |-> x, n_frames |-> s[1], dims |-> SubSeq(s, 2, k - 1)]
        ELSE [err |-> "ValueError", points |-> NoArray, n_frames |-> None, dims |-> <<>>]

\* plots_base.get_points_array(x, None, None, n_dims)
Plot_get_points_array(x, n_dims) ==
    LET s == x.shape
        k == Len(s)
    IN  IF s = <<3>>
        THEN [err |-> "none", points |-> np_reshape(x, <<1, 1, 3>>), n_frames |-> None,
              dims |-> Ones(n_dims)]
        ELSE IF k = n_dims + 1 /\ s[k] = 3
        THEN [err |-> "none", points |-> x, n_frames |-> None, dims |-> SubSeq(s, 1, k - 1)]
        ELSE IF k = n_dims + 2 /\ s[k] = 3
        THEN [err |-> "none", points |-> x, n_frames |-> s[1], dims |-> SubSeq(s, 2, k - 1)]
        ELSE [err |-> "ValueError", points |-> NoArray, n_frames |-> None, dims |-> <<>>]

\* scatter.get_points_array(x, None, None)
Scatter_get_points_array(x) ==
    LET s == x.shape
    IN  IF s = <<3>>
        THEN [err |-> "none", points |-> np_reshape(x, <<1, 3>>), n_frames |-> None,
              dims |-> <<1>>]
        ELSE IF Len(s) = 2 /\ s[2] = 3
        THEN [err |-> "none", points |-> x, n_frames |-> None, dims |-> <<s[1]>>]
        ELSE IF Len(s) = 3 /\ s[3] = 3
        THEN [err |-> "none", points |-> x, n_frames |-> s[1], dims |-> <<s[2]>>]
        ELSE [err |-> "ValueError", points |-> NoArray, n_frames |-> None, dims |-> <<>>]

\* the frame_index attribute update_points sets when the plot is animated
set_frame_index(b, nf, ds) ==
    IF nf = None \/ b.err # "none" THEN b
    ELSE set_vertex_attribute(b, "frame_index", frame_index_values(nf, n_points_of(ds)), 1)

\* Plot.update_points() with self._points = p
Plot_update_points(b, c, nf, ds, p) ==
    LET co == reshape_xyz(p)
        b1 == IF len(b.mesh.vertices) = 0
              THEN [b EXCEPT !.mesh.vertices = co, !.mesh.faces = get_geometry_faces(c, nf, ds)]
              ELSE IF len(b.mesh.vertices) = len(co)
              THEN [b EXCEPT !.mesh.vertices = co]
              ELSE \* the message reads self._point
                   [b EXCEPT !.err = "AttributeError", !.raised_in = "update_points"]
    IN set_frame_index(b1, nf, ds)

\* The points setter of Plot: [stored, b] for the assignment self.points = p
Plot_points(b, c, nf, ds, stored, p) ==
    IF stored # NoArray /\ p.shape # stored.shape
    THEN [stored |-> stored, b |-> [b EXCEPT !.err = "ValueError", !.raised_in = "points"]]
    ELSE [stored |-> p, b |-> Plot_update_points(b, c, nf, ds, p)]

\* Scatter.update_points() with self._points = p
Scatter_update_points(b, nf, ds, p) ==
    LET co == reshape_xyz(p)
        b1 == IF ~b.mesh.exists
              THEN [b EXCEPT !.mesh = [exists |-> TRUE, vertices |-> co, faces |-> <<>>]]
              ELSE IF Prod(p.shape) = len(b.mesh.vertices) * 3
              THEN [b EXCEPT !.mesh.vertices = co]
              ELSE \* vertices.foreach_set("co", ...) with an array of another length
                   [b EXCEPT !.err = "TypeError", !.raised_in = "foreach_set"]
        b2 == set_frame_index(b1, nf, ds)
    IN IF b2.err # "none" THEN b2
       ELSE IF b2.scene.object # "own" THEN [b2 EXCEPT !.scene = new_empty(@)]
       ELSE b2

\* The points setter of Scatter
Scatter_points(b, nf, ds, stored, p) ==
    [stored |-> p, b |-> Scatter_update_points(b, nf, ds, p)]

\* Plot.update_color() with self._color = a (Arrows, Surface); the mutant
\* creates and appends the material before it tiles
Plot_update_color_material_first(b, c, nf, ds, a) ==
    IF a = NoArray THEN b
    ELSE LET r  == tile_data(c, nf, ds, a, ColorDims)
             b0 == append_color_material(b)
         IN IF r.err # "none" THEN [b0 EXCEPT !.err = r.err, !.raised_in = "tile_data"]
            ELSE set_vertex_colors(b0, r.out)

Plot_update_color(b, c, nf, ds, a) ==
    IF a = NoArray THEN b
    ELSE LET r == tile_data(c, nf, ds, a, ColorDims)
         IN IF r.err # "none" THEN [b EXCEPT !.err = r.err, !.raised_in = "tile_data"]
            ELSE LET b1 == set_vertex_colors(b, r.out)
                 IN IF b1.err # "none" THEN b1 ELSE append_color_material(b1)

\* Scatter.update_color() with self._color = a
Scatter_update_color(b, has_marker_modifier, nf, ds, a) ==
    IF a = NoArray THEN b
    ELSE LET r == tile_data("Scatter", nf, ds, a, ColorDims)
         IN IF r.err # "none" THEN [b EXCEPT !.err = r.err, !.raised_in = "tile_data"]
            ELSE LET b1 == set_vertex_colors(b, r.out)
                     b2 == append_color_material(b1)
                 IN IF b1.err # "none" THEN b1
                    ELSE IF ~has_marker_modifier
                    THEN [b2 EXCEPT !.err = "AttributeError", !.raised_in = "update_color"]
                    ELSE [b2 EXCEPT !.modifier.params =
                             set_parameter(@, <<"Input_", 2>>, b2.color_material)]

\* Scatter.update_marker_rotation() with self._marker_rotation = a
Scatter_update_marker_rotation(b, nf, ds, a) ==
    IF a = NoArray THEN b
    ELSE LET r == tile_data("Scatter", nf, ds, a, RotationDims)
         IN IF r.err # "none" THEN [b EXCEPT !.err = r.err, !.raised_in = "tile_data"]
            ELSE set_vertex_attribute(b, "marker_rotation",
                     IF r.dims = <<3, 3>> THEN stack_to_euler(r.out) ELSE r.out, 3)

\* Arrows.update_arrows() with self._arrows = a
Arrows_update_arrows(b, nf, ds, a) ==
    IF a = NoArray THEN b
    ELSE LET r == tile_data("Arrows", nf, ds, a, ArrowsDims)
         IN IF r.err # "none" THEN [b EXCEPT !.err = r.err, !.raised_in = "tile_data"]
            ELSE set_vertex_attribute(b, "arrows",
                     IF r.dims = <<>> THEN triple_T(r.out) ELSE r.out, 3)

----------------------------------------------------------------------------
(* The node graphs the classes build: each builder is the sequence of its  *)
(* new_node calls. A call that is no NodeGroupOutput call creates one node, *)
(* so the k-th call of a builder that starts on a group of o nodes returns  *)
(* node o + k, and the sockets the later calls are given are its outputs.   *)

NewNodeCall(node_type, kwargs) == [node_type |-> node_type, kwargs |-> kwargs]

Keyword(key, value) == [key |-> key, value |-> value]

\* node.outputs[name] of node n of the group
Output(n, name) == SocketValue([node |-> n, output |-> name])

\* node_linker.group_input.outputs[name]
GroupInputOutput(name) == Output(1, name)

\* the calls in order, up to the first that raises
RECURSIVE new_nodes(_, _, _)
new_nodes(st, calls, i) ==
    IF i > Len(calls) \/ st.err # "none" THEN st
    ELSE new_nodes(new_node(st, calls[i].node_type, calls[i].kwargs), calls, i + 1)

\* action.fcurves.new(data_path='nodes["..."].inputs[0].default_value'),
\* fcurve.keyframe_points.add(2) and foreach_set("co", [0, 0, n_frames,
\* n_frames]) of get_frame_selection_node: n is the node the data path names
new_fcurve(n, nf) == [node |-> n, co |-> <<0, 0, nf, nf>>]

\* node_group.nodes[name] for the name the backend gives the first node of a
\* type ("Math" for ShaderNodeMath; the later ones are "Math.001", ...): 0
\* when the group has no node of the type
node_named(ns, type) ==
    IF \E k \in 1..Len(ns) : ns[k].type = type
    THEN CHOOSE k \in 1..Len(ns) : ns[k].type = type /\ \A j \in 1..(k - 1) : ns[j].type # type
    ELSE 0

\* The value of the F-curve at a frame between its two keyframes, as the
\* fraction num / den. keyframe_points.add leaves the handles of both
\* keyframes at zero and foreach_set("co", ...) moves the control points
\* only, so the Bezier segment from (0, 0) to (n_frames, n_frames) has the
\* same polynomial in both coordinates and the value rises linearly.
fcurve_evaluate(co, frame) ==
    [num |-> co[2] * (co[3] - co[1]) + (co[4] - co[2]) * (frame - co[1]),
     den |-> co[3] - co[1]]

\* the Math node with operation="COMPARE" and input_2=0.5: whether input 0
\* (the fraction a) and input 1 (b) differ by 0.5 at most
math_compare(a, b) ==
    LET diff == a.num - b * a.den
    IN 2 * (IF diff < 0 THEN -diff ELSE diff) <= a.den

\* the vertices (flat indices from 0) the frame selection node selects at a
\* scene frame: input 0 is driven by the F-curve, input 1 is the frame_index
\* attribute of the vertex
frame_selection_at(frame) ==
    {v \in 0..(len(mesh.vertices) - 1) :
        math_compare(fcurve_evaluate(fcurve.co, frame), attributes["frame_index"].data[v + 1])}

\* get_frame_selection_node(modifier, n_frames): its new_node calls; the
\* node it returns is node o + 2
get_frame_selection_node(o) ==
    << NewNodeCall("GeometryNodeInputNamedAttribute",
           <<Keyword(<<"data", "type">>, Constant), Keyword(<<"name">>, Constant)>>),
       NewNodeCall("ShaderNodeMath",
           <<Keyword(<<"operation">>, Constant),
             Keyword(<<"input", "1">>, Output(o + 1, "1")),
             Keyword(<<"input", "2">>, Constant)>>) >>

\* the calls of add_arrows from points_socket to arrow_geometry_node, on a
\* group of o nodes
add_arrows_nodes(o, frame_selection) ==
    << NewNodeCall("GeometryNodeMeshToPoints",                 \* o + 1: points_socket
           <<Keyword(<<"mesh">>, GroupInputOutput("Geometry"))>>),
       NewNodeCall("GeometryNodeInputNamedAttribute",          \* o + 2: arrows
           <<Keyword(<<"data", "type">>, Constant), Keyword(<<"name">>, Constant)>>),
       NewNodeCall("ShaderNodeVectorMath",                     \* o + 3: lengths
           <<Keyword(<<"operation">>, Constant),
             Keyword(<<"vector">>, Output(o + 2, "Attribute"))>>),
       NewNodeCall("ShaderNodeMath",                           \* o + 4: lengths
           <<Keyword(<<"operation">>, Constant),
             Keyword(<<"input", "0">>, Output(o + 3, "Value")),
             Keyword(<<"input", "1">>, Constant)>>),
       NewNodeCall("FunctionNodeAlignEulerToVector",           \* o + 5: rotations
           <<Keyword(<<"axis">>, Constant),
             Keyword(<<"vector">>, Output(o + 2, "Attribute"))>>),
       NewNodeCall("GeometryNodeMeshCylinder",                 \* o + 6: cylinder_mesh
           <<Keyword(<<"depth">>, Constant), Keyword(<<"radius">>, Constant)>>),
       NewNodeCall("GeometryNodeTransform",                    \* o + 7: cylinder_mesh
           <<Keyword(<<"geometry">>, Output(o + 6, "Mesh")),
             Keyword(<<"translation">>, Constant)>>),
       NewNodeCall("GeometryNodeSetMaterial",                  \* o + 8: colored_cylinder
           <<Keyword(<<"geometry">>, Output(o + 7, "Geometry")),
             Keyword(<<"material">>, GroupInputOutput("Point Color"))>>),
       NewNodeCall("ShaderNodeCombineXYZ",                     \* o + 9: scale=...
           <<Keyword(<<"x">>, Constant), Keyword(<<"y">>, Constant),
             Keyword(<<"z">>, Output(o + 4, "Value"))>>),
       NewNodeCall("GeometryNodeInstanceOnPoints",             \* o + 10: cylinder_instances
           <<Keyword(<<"points">>, Output(o + 1, "Points")),
             Keyword(<<"selection">>, frame_selection),
             Keyword(<<"instance">>, Output(o + 8, "Geometry")),
             Keyword(<<"rotation">>, Output(o + 5, "Rotation")),
             Keyword(<<"scale">>, Output(o + 9, "Vector"))>>),
       NewNodeCall("GeometryNodeRealizeInstances",             \* o + 11: cylinder_geometry
           <<Keyword(<<"geometry">>, Output(o + 10, "Instances"))>>),
       NewNodeCall("GeometryNodeMeshCone",                     \* o + 12: cone_mesh
           <<Keyword(<<"depth">>, Constant), Keyword(<<"radius", "bottom">>, Constant)>>),
       NewNodeCall("GeometryNodeSetMaterial",                  \* o + 13: colored_cone
           <<Keyword(<<"geometry">>, Output(o + 12, "Mesh")),
             Keyword(<<"material">>, GroupInputOutput("Point Color"))>>),
       NewNodeCall("GeometryNodeInstanceOnPoints",             \* o + 14: cone_instances
           <<Keyword(<<"points">>, Output(o + 1, "Points")),
             Keyword(<<"selection">>, frame_selection),
             Keyword(<<"instance">>, Output(o + 13, "Geometry")),
             Keyword(<<"rotation">>, Output(o + 5, "Rotation"))>>),
       NewNodeCall("ShaderNodeCombineXYZ",                     \* o + 15: translation=...
           <<Keyword(<<"x">>, Constant), Keyword(<<"y">>, Constant),
             Keyword(<<"z">>, Output(o + 4, "Value"))>>),
       NewNodeCall("GeometryNodeTranslateInstances",           \* o + 16: cone_instances
           <<Keyword(<<"instances">>, Output(o + 14, "Instances")),
             Keyword(<<"translation">>, Output(o + 15, "Vector"))>>),
       NewNodeCall("GeometryNodeRealizeInstances",             \* o + 17: cone_geometry
           <<Keyword(<<"geometry">>, Output(o + 16, "Instances"))>>),
       NewNodeCall("GeometryNodeJoinGeometry",                 \* o + 18: arrow_geometry_node
           <<Keyword(<<"geometry">>, Output(o + 11, "Geometry"))>>) >>

\* add_arrows(base_modifier, n_frames, ...)
add_arrows(st, has_node_group, nf) ==
    LET node_linker == new_input_socket(get_node_linker(st, has_node_group),
                                        "Point Color", "NodeSocketMaterial")
        n == Len(node_linker.nodes)
        o == IF nf = None THEN n ELSE n + 2
        joined == new_nodes(node_linker,
                      (IF nf = None THEN <<>> ELSE get_frame_selection_node(n))
                      \o add_arrows_nodes(o, IF nf = None THEN NoneValue
                                             ELSE Output(n + 2, "Value")),
                      1)
    IN IF joined.err # "none" THEN joined
       ELSE new_node([joined EXCEPT !.links =
                         link(@, [node |-> o + 17, output |-> "Geometry"], o + 18, 0, TRUE)],
                     "NodeGroupOutput",
                     <<Keyword(<<"geometry">>, Output(o + 18, "Geometry"))>>)

\* surface.animate(base_modifier, n_frames), for a modifier with a node group
animate(st) ==
    LET n == Len(st.nodes)
    IN new_nodes(NodeLinker(st),
           get_frame_selection_node(n)
           \o << NewNodeCall("GeometryNodeSeparateGeometry",   \* n + 3: visible_geometry
                     <<Keyword(<<"geometry">>, GroupInputOutput("Geometry")),
                       Keyword(<<"selection">>, Output(n + 2, "Value"))>>),
                 NewNodeCall("NodeGroupOutput",
                     <<Keyword(<<"geometry">>, Output(n + 3, "Selection"))>>) >>,
           1)

\* the calls of add_mesh_markers before the frame selection, on a group of o nodes
add_mesh_markers_nodes(o) ==
    << NewNodeCall("GeometryNodeMeshToPoints",                 \* o + 1: points_socket
           <<Keyword(<<"mesh">>, GroupInputOutput("Geometry"))>>),
       NewNodeCall("GeometryNodeMeshCube", <<>>),              \* o + 2: mesh_socket
       NewNodeCall("GeometryNodeSetMaterial",                  \* o + 3: colored_mesh
           <<Keyword(<<"geometry">>, Output(o + 2, "Mesh")),
             Keyword(<<"material">>, GroupInputOutput("Point Color"))>>),
       NewNodeCall("GeometryNodeInputNamedAttribute",          \* o + 4: marker_rotation
           <<Keyword(<<"data", "type">>, Constant), Keyword(<<"name">>, Constant)>>) >>

\* scatter.add_mesh_markers(base_object, marker_type="cubes", n_frames=...),
\* for a modifier with a node group
add_mesh_markers(st, nf) ==
    LET color_input == new_input(NodeLinker(st), "NodeSocketMaterial", "Point Color")
        instance_input == IF color_input.err # "none" THEN color_input
                          ELSE new_input(color_input, "NodeSocketObject", "Point Instance")
        o == Len(st.nodes)
        i == IF nf = None THEN o + 5 ELSE o + 7                \* instance_on_points_node
    IN new_nodes(instance_input,
           add_mesh_markers_nodes(o)
           \o (IF nf = None THEN <<>> ELSE get_frame_selection_node(o + 4))
           \o << NewNodeCall("GeometryNodeInstanceOnPoints",
                     <<Keyword(<<"points">>, Output(o + 1, "Points")),
                       Keyword(<<"selection">>, IF nf = None THEN NoneValue
                                                ELSE Output(o + 6, "Value")),
                       Keyword(<<"instance">>, Output(o + 3, "Geometry")),
                       Keyword(<<"rotation">>, Output(o + 4, "Attribute")),
                       Keyword(<<"scale">>, NoneValue)>>),
                 NewNodeCall("GeometryNodeRealizeInstances",   \* i + 1
                     <<Keyword(<<"geometry">>, Output(i, "Instances"))>>),
                 NewNodeCall("NodeGroupOutput",
                     <<Keyword(<<"geometry">>, Output(i + 1, "Geometry"))>>) >>,
           1)

----------------------------------------------------------------------------
(* Specification of one entity: its construction, statement by statement, *)
(* and the assignments to its properties after it.                         *)

MaxUpdates == 2     \* at most MaxUpdates assignments follow the construction

ClassesInUse == {"Scatter", "Arrows", "Surface"}

\* the entity axes of the points the constructor is given
EntityShape(c) == IF c = "Surface" THEN <<MaxGrid, MaxGrid>> ELSE <<MaxPoints>>

\* x: one point, static, animated, and a shape that is no points array; for
\* Surface also a grid with more columns than rows, static and animated
PointsInUse(c) ==
    {Ramp(s, 0) : s \in {<<3>>, EntityShape(c) \o <<3>>,
                         <<MaxFrames>> \o EntityShape(c) \o <<3>>, EntityShape(c) \o <<2>>}
                        \cup (IF c = "Surface"
                              THEN {<<MaxGrid, MaxGrid + 1, 3>>,
                                    <<MaxFrames, MaxGrid, MaxGrid + 1, 3>>}
                              ELSE {})}

\* color: None, one color, a color per entity, and a shape of no form
ColorsInUse(c) ==
    {NoArray} \cup {Ramp(s, 1000) : s \in {<<3>>, EntityShape(c) \o <<4>>, <<5>>}}

\* marker_rotation: None, one rotation, a matrix per entity, and a shape of no form
RotationsInUse ==
    {NoArray} \cup {Ramp(s, 2000) : s \in {<<3>>, <<MaxPoints, 3, 3>>, <<5>>}}

\* vector: None, one length, a vector per entity, a length per entity, a
\* length per frame and entity, and a shape of no form
ArrowsInUse ==
    {NoArray} \cup {Ramp(s, 3000) : s \in {<<>>, <<MaxPoints, 3>>, <<MaxPoints>>,
                                           <<MaxFrames, MaxPoints>>, <<5>>}}

ArgsInUse(c) ==
    CASE c = "Scatter" ->
             {[NoArgs EXCEPT !.x = x, !.color = col, !.marker_type = mt, !.marker_rotation = rot] :
                 x \in PointsInUse(c), col \in ColorsInUse(c), mt \in {"cubes", "None"},
                 rot \in RotationsInUse}
      [] c = "Arrows" ->
             UNION {{[NoArgs EXCEPT !.x = x, !.color = col, !.vector = v, !.end = e] :
                        col \in ColorsInUse(c), v \in ArrowsInUse,
                        e \in {NoArray, Ramp(x.shape, 4000)}} : x \in PointsInUse(c)}
      [] OTHER ->
             {[NoArgs EXCEPT !.x = x, !.color = col] :
                 x \in PointsInUse(c), col \in ColorsInUse(c)}

\* the statements of the constructors, in order
Plot_init == <<"Plot.__init__", "points", "color">>
Arrows_init == Plot_init \o <<"add_arrows", "Point Color", "arrows">>
Surface_init == Plot_init \o <<"animate">>

\* the mutant assigns marker_rotation before it adds the markers
Scatter_init_rotation_first == <<"points", "marker_rotation", "markers", "color">>

Scatter_init == <<"points", "markers", "color", "marker_rotation">>

Statements(c) ==
    CASE c = "Scatter" -> Scatter_init
      [] c = "Arrows"  -> Arrows_init
      [] OTHER         -> Surface_init

\* the statement after statement at of the constructor of c ("ready": it returns)
After(c, at) ==
    LET i == CHOOSE k \in 1..Len(Statements(c)) : Statements(c)[k] = at
    IN IF i = Len(Statements(c)) THEN "ready" ELSE Statements(c)[i + 1]

graphVars == <<group_inputs, next_id, input_sockets, declared, nodes, links, node, failed,
               call_kwargs>>

InitEntity ==
    /\ cls \in ClassesInUse
    /\ args \in ArgsInUse(cls)
    /\ pc = Statements(cls)[1]
    /\ err = "none"
    /\ n_frames = None
    /\ dims = <<>>
    /\ version \in {3, 4}
    /\ scene \in {[object |-> o, deleted |-> FALSE] : o \in {"none", "previous"}}
    /\ NothingBuilt
    /\ NoTile
    /\ LinkerIs(NoLinker)
    /\ call_kwargs = <<>>
    /\ NoFunctionCall

\* the attribute pushes that lead from the attributes now to those of b
PushEvents(b) ==
    LET pushed(name, event) == IF b.attributes[name] # attributes[name] THEN <<event>> ELSE <<>>
    IN pushed("marker_color", "push_color") \o pushed("marker_rotation", "push_rotation")
         \o pushed("arrows", "push_arrows")

\* A statement of the constructor ends with the backend b, after the events
Statement(b, events) ==
    /\ SetBackend(b)
    /\ op' = pc
    /\ pc' = IF b.err # "none" THEN "failed" ELSE After(cls, pc)
    /\ log' = log \o events \o PushEvents(b)
    /\ constructed' = IF pc' = "ready"
                      THEN [shape |-> points.shape, n_frames |-> n_frames, dims |-> dims]
                      ELSE constructed
    /\ UNCHANGED <<cls, args, updates, version, tileVars, functionVars>>

Raise(b, e, where) == [b EXCEPT !.err = e, !.raised_in = where]

\* Plot.__init__, lines 9-15: the mesh, the object (new_empty) and the
\* modifier; Blender before 3.2 gives a new NODES modifier a node group
PlotNew ==
    /\ pc = "Plot.__init__"
    /\ \E auto \in IF version = 3 THEN BOOLEAN ELSE {FALSE} :
           /\ SetGraph(IF auto THEN get_node_linker(Linker, FALSE) ELSE Linker)
           /\ Statement([Backend EXCEPT
                           !.mesh = [exists |-> TRUE, vertices |-> NoArray, faces |-> <<>>],
                           !.scene = new_empty(@),
                           !.modifier = [exists |-> TRUE, has_node_group |-> auto,
                                         params |-> {}]],
                        <<>>)
    /\ UNCHANGED <<n_frames, dims, points, color, arrows, marker_rotation, marker_modifier,
                   frame_end, fcurve, call_kwargs>>

\* Plot.__init__, lines 17-18: get_points_array and self.points = points
PlotInitPoints ==
    /\ pc = "points"
    /\ cls \in {"Arrows", "Surface"}
    /\ LET g == Plot_get_points_array(args.x, IF cls = "Surface" THEN 2 ELSE 1)
           r == Plot_points(Backend, cls, g.n_frames, g.dims, points, g.points)
       IN IF g.err # "none"
          THEN /\ UNCHANGED <<n_frames, dims, points>>
               /\ Statement(Raise(Backend, g.err, "get_points_array"), <<>>)
          ELSE /\ n_frames' = g.n_frames
               /\ dims' = g.dims
               /\ points' = r.stored
               /\ Statement(r.b, IF r.b.err = "none" THEN <<"points_stored", "vertex_buffer">>
                                 ELSE <<>>)
    /\ UNCHANGED <<color, arrows, marker_rotation, marker_modifier, frame_end, fcurve, graphVars>>

\* Plot.__init__, line 19: self.color = color
PlotInitColor ==
    /\ pc = "color"
    /\ cls \in {"Arrows", "Surface"}
    /\ color' = args.color
    /\ Statement(Plot_update_color(Backend, cls, n_frames, dims, args.color), <<>>)
    /\ UNCHANGED <<n_frames, dims, points, arrows, marker_rotation, marker_modifier,
                   frame_end, fcurve, graphVars>>

\* Arrows.__init__, lines 39-46: self.node_linker = add_arrows(...)
ArrowsAddArrows ==
    /\ pc = "add_arrows"
    /\ LET st == add_arrows(Linker, modifier.has_node_group, n_frames)
       IN /\ SetGraph(st)
          /\ Statement(IF st.err # "none" THEN Raise(Backend, st.err, "new_node")
                       ELSE [Backend EXCEPT !.modifier.has_node_group = TRUE],
                       IF st.err = "none" THEN <<"graph_built">> ELSE <<>>)
    /\ frame_end' = IF n_frames = None THEN frame_end ELSE n_frames - 1
    /\ fcurve' = IF n_frames = None THEN fcurve
                 ELSE new_fcurve(Len(get_node_linker(Linker, modifier.has_node_group).nodes) + 2,
                                 n_frames)
    /\ UNCHANGED <<n_frames, dims, points, color, arrows, marker_rotation, marker_modifier,
                   call_kwargs>>

\* Arrows.__init__, lines 48-50: the Point Color parameter of the modifier
ArrowsPointColor ==
    /\ pc = "Point Color"
    /\ Statement(IF input_sockets["Point Color"] = NoKey
                 THEN Raise(Backend, "KeyError", "input_sockets")
                 ELSE [Backend EXCEPT !.modifier.params =
                          set_parameter(@, input_sockets["Point Color"],
                                        IF color_material = 0 THEN None ELSE color_material)],
                 <<>>)
    /\ UNCHANGED <<n_frames, dims, points, color, arrows, marker_rotation, marker_modifier,
                   frame_end, fcurve, graphVars>>

\* Arrows.__init__, lines 52-60: end and vector, self.arrows = ...
ArrowsInitArrows ==
    /\ pc = "arrows"
    /\ IF args.end # NoArray /\ args.vector # NoArray
       THEN /\ UNCHANGED arrows
            /\ Statement(Raise(Backend, "ValueError", "Arrows.__init__"), <<>>)
       ELSE LET a == IF args.end # NoArray THEN minus(args.end, args.x) ELSE args.vector
            IN /\ arrows' = a
               /\ Statement(Arrows_update_arrows(Backend, n_frames, dims, a), <<>>)
    /\ UNCHANGED <<n_frames, dims, points, color, marker_rotation, marker_modifier,
                   frame_end, fcurve, graphVars>>

\* Surface.__init__, lines 21-22: animate(self.modifier, self.n_frames);
\* bu.geometry_node_group_empty_new, which animate calls for a modifier
\* without node group, is no attribute of blender_utils
SurfaceAnimate ==
    /\ pc = "animate"
    /\ IF n_frames = None
       THEN /\ Statement(Backend, <<>>)
            /\ UNCHANGED <<frame_end, fcurve, graphVars>>
       ELSE IF ~modifier.has_node_group
       THEN /\ Statement(Raise(Backend, "AttributeError", "animate"), <<>>)
            /\ UNCHANGED <<frame_end, fcurve, graphVars>>
       ELSE LET st == animate(Linker)
            IN /\ SetGraph(st)
               /\ Statement(IF st.err # "none" THEN Raise(Backend, st.err, "new_node")
                            ELSE Backend,
                            IF st.err = "none" THEN <<"graph_built">> ELSE <<>>)
               /\ frame_end' = n_frames - 1
               /\ fcurve' = new_fcurve(Len(nodes) + 2, n_frames)
               /\ UNCHANGED call_kwargs
    /\ UNCHANGED <<n_frames, dims, points, color, arrows, marker_rotation, marker_modifier>>

\* Scatter.__init__, lines 44-50: get_points_array and self.points = points
ScatterInitPoints ==
    /\ pc = "points"
    /\ cls = "Scatter"
    /\ LET g == Scatter_get_points_array(args.x)
           r == Scatter_points(Backend, g.n_frames, g.dims, points, g.points)
       IN IF g.err # "none"
          THEN /\ UNCHANGED <<n_frames, dims, points>>
               /\ Statement(Raise(Backend, g.err, "get_points_array"), <<>>)
          ELSE /\ n_frames' = g.n_frames
               /\ dims' = g.dims
               /\ points' = r.stored
               /\ Statement(r.b, IF r.b.err = "none" THEN <<"points_stored", "vertex_buffer">>
                                 ELSE <<>>)
    /\ UNCHANGED <<color, arrows, marker_rotation, marker_modifier, frame_end, fcurve, graphVars>>

\* Scatter.__init__, lines 51-61: the marker modifier (marker_type "cubes" or
\* None); bu.geometry_node_group_empty_new, which add_mesh_markers calls for
\* a modifier without node group, is no attribute of blender_utils
ScatterMarkers ==
    /\ pc = "markers"
    /\ IF args.marker_type = "None"
       THEN /\ Statement(Backend, <<>>)
            /\ UNCHANGED <<marker_modifier, frame_end, fcurve, graphVars>>
       ELSE \E auto \in IF version = 3 THEN BOOLEAN ELSE {FALSE} :
              LET created == [Backend EXCEPT
                                !.modifier = [exists |-> TRUE, has_node_group |-> auto,
                                              params |-> {}]]
                  st == add_mesh_markers(get_node_linker(Linker, FALSE), n_frames)
              IN IF ~auto
                 THEN /\ Statement(Raise(created, "AttributeError", "add_mesh_markers"), <<>>)
                      /\ UNCHANGED <<marker_modifier, frame_end, fcurve, graphVars>>
                 ELSE /\ SetGraph(st)
                      /\ Statement(IF st.err # "none" THEN Raise(created, st.err, "new_node")
                                   ELSE created,
                                   IF st.err = "none" THEN <<"graph_built">> ELSE <<>>)
                      /\ marker_modifier' = (st.err = "none")
                      /\ frame_end' = IF n_frames = None THEN frame_end ELSE n_frames - 1
                      /\ fcurve' = IF n_frames = None THEN fcurve
                                   ELSE new_fcurve(node_named(st.nodes, "ShaderNodeMath"),
                                                   n_frames)
                      /\ UNCHANGED call_kwargs
    /\ UNCHANGED <<n_frames, dims, points, color, arrows, marker_rotation>>

\* Scatter.__init__, line 62: self.color = color
ScatterInitColor ==
    /\ pc = "color"
    /\ cls = "Scatter"
    /\ color' = args.color
    /\ Statement(Scatter_update_color(Backend, marker_modifier, n_frames, dims, args.color),
                 <<>>)
    /\ UNCHANGED <<n_frames, dims, points, arrows, marker_rotation, marker_modifier,
                   frame_end, fcurve, graphVars>>

\* Scatter.__init__, line 63: self.marker_rotation = marker_rotation
ScatterInitRotation ==
    /\ pc = "marker_rotation"
    /\ marker_rotation' = args.marker_rotation
    /\ Statement(Scatter_update_marker_rotation(Backend, n_frames, dims,
                                                args.marker_rotation), <<>>)
    /\ UNCHANGED <<n_frames, dims, points, color, arrows, marker_modifier, frame_end, fcurve,
                   graphVars>>

\* the mutant gives the modifier a new node group on every assignment
Assignment_new_group(b, name, a) ==
    /\ SetBackend(b)
    /\ op' = name
    /\ data_array' = a
    /\ updates' = updates + 1
    /\ SetGraph(get_node_linker(NoLinker, FALSE))
    /\ UNCHANGED <<pc, cls, n_frames, dims, args, marker_modifier, frame_end, fcurve, constructed,
                   log, version, valid_dims, ret, ret2, call_kwargs, functionVars>>

\* An assignment to a property of the constructed entity ends with the backend b
Assignment(b, name, a) ==
    /\ SetBackend(b)
    /\ op' = name
    /\ data_array' = a
    /\ updates' = updates + 1
    /\ UNCHANGED <<pc, cls, n_frames, dims, args, marker_modifier, frame_end, fcurve, constructed,
                   log, version, valid_dims, ret, ret2, graphVars, functionVars>>

\* the arrays assigned to points: of the stored shape, of the stored size
\* with one more axis, and with one more row
PointsAssigned ==
    {Ramp(s, 500) : s \in {points.shape, <<1>> \o points.shape,
                           <<points.shape[1] + 1>> \o Tail(points.shape)}}

\* entity.points = p
SetPoints ==
    /\ pc = "ready"
    /\ updates < MaxUpdates
    /\ \E p \in PointsAssigned :
           LET r == IF cls = "Scatter" THEN Scatter_points(Backend, n_frames, dims, points, p)
                    ELSE Plot_points(Backend, cls, n_frames, dims, points, p)
           IN /\ points' = r.stored
              /\ Assignment(r.b, "points", p)
    /\ UNCHANGED <<color, arrows, marker_rotation>>

\* entity.color = a
SetColor ==
    /\ pc = "ready"
    /\ updates < MaxUpdates
    /\ \E a \in ColorsInUse(cls) :
           /\ color' = a
           /\ Assignment(IF cls = "Scatter"
                         THEN Scatter_update_color(Backend, marker_modifier, n_frames, dims, a)
                         ELSE Plot_update_color(Backend, cls, n_frames, dims, a),
                         "color", a)
    /\ UNCHANGED <<points, arrows, marker_rotation>>

\* scatter.marker_rotation = a
SetMarkerRotation ==
    /\ pc = "ready"
    /\ cls = "Scatter"
    /\ updates < MaxUpdates
    /\ \E a \in RotationsInUse :
           /\ marker_rotation' = a
           /\ Assignment(Scatter_update_marker_rotation(Backend, n_frames, dims, a),
                         "marker_rotation", a)
    /\ UNCHANGED <<points, color, arrows>>

\* arrows.arrows = a
SetArrows ==
    /\ pc = "ready"
    /\ cls = "Arrows"
    /\ updates < MaxUpdates
    /\ \E a \in ArrowsInUse :
           /\ arrows' = a
           /\ Assignment(Arrows_update_arrows(Backend, n_frames, dims, a), "arrows", a)
    /\ UNCHANGED <<points, color, marker_rotation>>

NextEntity ==
    \/ PlotNew \/ PlotInitPoints \/ PlotInitColor
    \/ ArrowsAddArrows \/ ArrowsPointColor \/ ArrowsInitArrows
    \/ SurfaceAnimate
    \/ ScatterInitPoints \/ ScatterMarkers \/ ScatterInitColor \/ ScatterInitRotation
    \/ SetPoints \/ SetColor \/ SetMarkerRotation \/ SetArrows

SpecEntity == InitEntity /\ [][NextEntity]_vars

----------------------------------------------------------------------------
(* bpy.data.objects, delete and new_empty. An object has an id (its        *)
(* identity), a name and a parent (NoObject: none). Names are unique in    *)
(* bpy.data.objects: an object created under a taken name is given another *)
(* name by the backend. Objects are parented by the user of the scene.     *)

MaxObjects == 5     \* at most MaxObjects objects are created

NamesInUse == {"scatter", "arrows", "surface"}

NoObject == 0

\* name in bpy.data.objects
InObjects(objs, name) == \E o \in objs : o.name = name

\* bpy.data.objects[name].id
ObjectNamed(objs, name) == (CHOOSE o \in objs : o.name = name).id

\* obj.children
children(objs, id) == {o.id : o \in {c \in objs : c.parent = id}}

\* bpy.data.objects.remove(obj, do_unlink=True): its children lose their parent
remove(objs, id) ==
    {IF o.parent = id THEN [o EXCEPT !.parent = NoObject] ELSE o :
        o \in {c \in objs : c.id # id}}

\* bpy.data.objects.new(name, object_data): the object is named name unless
\* the name is taken
objects_new(objs, id, name) ==
    objs \cup {[id |-> id,
                name |-> IF InObjects(objs, name) THEN name \o ".001" ELSE name,
                parent |-> NoObject]}

\* the mutant removes the object and leaves its children
delete_object_only(objs, id, with_children) == remove(objs, id)

\* delete(obj, with_children) for an object of bpy.data.objects
RECURSIVE delete(_, _, _)
delete(objs, id, with_children) ==
    LET RECURSIVE each(_, _)
        \* for child in obj.children: delete(child, with_children=True)
        each(os, cs) ==
            IF cs = {} THEN os
            ELSE LET child == CHOOSE c \in cs : TRUE
                 IN each(delete(os, child, TRUE), cs \ {child})
    IN remove(IF with_children THEN each(objs, children(objs, id)) ELSE objs, id)

\* the objects below an object: its children, their children, ...
RECURSIVE Below(_, _)
Below(objs, ids) ==
    LET more == ids \cup {o.id : o \in {c \in objs : c.parent \in ids}}
    IN IF more = ids THEN ids ELSE Below(objs, more)

InitScene ==
    /\ pc = "scene"
    /\ NoObjects
    /\ NoParse
    /\ NoFaces
    /\ NoNodeGroup
    /\ NoEntity
    /\ NoTile

\* new_empty(name, ...), lines 99-100: an object of that name is deleted
\* with its children
NewEmptyDelete ==
    /\ pc = "scene"
    /\ next_object <= MaxObjects
    /\ \E name \in NamesInUse :
          /\ object_name' = name
          /\ doomed' = IF InObjects(objects, name)
                       THEN Below(objects, {ObjectNamed(objects, name)}) ELSE {}
          /\ objects' = IF InObjects(objects, name)
                        THEN delete(objects, ObjectNamed(objects, name), TRUE)
                        ELSE objects
    /\ pc' = "new_empty"
    /\ UNCHANGED <<err, next_object, active, notSceneVars>>

\* new_empty(name, ...), lines 102-110: the new object, linked and active
NewEmptyCreate ==
    /\ pc = "new_empty"
    /\ objects' = objects_new(objects, next_object, object_name)
    /\ active' = next_object
    /\ next_object' = next_object + 1
    /\ pc' = "scene"
    /\ UNCHANGED <<err, object_name, doomed, notSceneVars>>

\* child.parent = parent, by the user of the scene; the backend refuses a
\* parent that is below the child
SetParent ==
    /\ pc = "scene"
    /\ \E child \in objects, parent \in objects :
          /\ parent.id \notin Below(objects, {child.id})
          /\ child.parent # parent.id
          /\ objects' = (objects \ {child}) \cup {[child EXCEPT !.parent = parent.id]}
    /\ UNCHANGED <<pc, err, next_object, active, object_name, doomed, notSceneVars>>

NextScene == NewEmptyDelete \/ NewEmptyCreate \/ SetParent

SpecScene == InitScene /\ [][NextScene]_vars

----------------------------------------------------------------------------
(* get_points_array(x, y, z, n_dims) of plots_base and get_points_array(x, *)
(* y, z) of scatter. None for y or z is NoArray; a scalar is an array of   *)
(* shape ().                                                               *)

\* the return value points, n_frames, dims and the exception raised
Parsed(p, nf, ds) == [err |-> "none", points |-> p, n_frames |-> nf, dims |-> ds]
ParseError == [err |-> "ValueError", points |-> NoArray, n_frames |-> None, dims |-> <<>>]

\* np.stack([x, y, z], axis=-1) for arrays of one shape; np.array([x, y, z])
\* for scalars
stack_xyz(x, y, z) ==
    [shape |-> x.shape \o <<3>>,
     data  |-> [i \in 1..(3 * Len(x.data)) |->
                   LET e == ((i - 1) \div 3) + 1
                   IN CASE (i - 1) % 3 = 0 -> x.data[e]
                        [] (i - 1) % 3 = 1 -> y.data[e]
                        [] OTHER           -> z.data[e]]]

\* the mutant returns no frame count for animated x, y, z
Plot_get_points_xyz_frames_dropped(x, y, z, n_dims) ==
    LET sx == x.shape
        sy == y.shape
        sz == z.shape
    IN  IF sx = <<>> /\ sy = <<>> /\ sz = <<>>
        THEN Parsed(np_reshape(stack_xyz(x, y, z), <<1, 3>>), None, Ones(n_dims))
        ELSE IF sx = sy /\ sy = sz /\ Len(sx) = n_dims
        THEN Parsed(stack_xyz(x, y, z), None, sx)
        ELSE IF sx = sy /\ sy = sz /\ Len(sx) = n_dims + 1
        THEN Parsed(stack_xyz(x, y, z), None, Tail(sx))
        ELSE ParseError

\* plots_base.get_points_array, lines 117-131: y and z are given
Plot_get_points_xyz(x, y, z, n_dims) ==
    LET sx == x.shape
        sy == y.shape
        sz == z.shape
    IN  IF sx = <<>> /\ sy = <<>> /\ sz = <<>>
        THEN Parsed(np_reshape(stack_xyz(x, y, z), <<1, 3>>), None, Ones(n_dims))
        ELSE IF sx = sy /\ sy = sz /\ Len(sx) = n_dims
        THEN Parsed(stack_xyz(x, y, z), None, sx)
        ELSE IF /\ sx # <<>> /\ sy # <<>> /\ sz # <<>>
                /\ sx[1] = sy[1] /\ sy[1] = sz[1]
                /\ Tail(sx) = Tail(sy) /\ Tail(sy) = Tail(sz)
                /\ Len(Tail(sx)) = n_dims
        THEN Parsed(stack_xyz(x, y, z), sx[1], Tail(sx))
        ELSE ParseError

\* scatter.get_points_array, lines 162-177: y and z are given
Scatter_get_points_xyz(x, y, z) ==
    LET sx == x.shape
        sy == y.shape
        sz == z.shape
    IN  IF sx = <<>> /\ sy = <<>> /\ sz = <<>>
        THEN Parsed(np_reshape(stack_xyz(x, y, z), <<1, 3>>), None, <<1>>)
        ELSE IF Len(sx) = 1 /\ Len(sy) = 1 /\ Len(sz) = 1 /\ sx[1] = sy[1] /\ sy[1] = sz[1]
        THEN Parsed(stack_xyz(x, y, z), None, sx)
        ELSE IF /\ Len(sx) = 2 /\ Len(sy) = 2 /\ Len(sz) = 2
                /\ sx[1] = sy[1] /\ sy[1] = sz[1]
                /\ sx[2] = sy[2] /\ sy[2] = sz[2]
        THEN Parsed(stack_xyz(x, y, z), sx[1], <<sx[2]>>)
        ELSE ParseError

\* the mutant takes a y without z for a single array
get_points_array_lone_y(module, x, y, z, n_dims) ==
    IF z = NoArray
    THEN IF module = "scatter" THEN Scatter_get_points_array(x)
         ELSE Plot_get_points_array(x, n_dims)
    ELSE IF y # NoArray /\ z # NoArray
    THEN IF module = "scatter" THEN Scatter_get_points_xyz(x, y, z)
         ELSE Plot_get_points_xyz(x, y, z, n_dims)
    ELSE ParseError

\* get_points_array of the module: only x, both y and z, or one of them
get_points_array(module, x, y, z, n_dims) ==
    IF y = NoArray /\ z = NoArray
    THEN IF module = "scatter" THEN Scatter_get_points_array(x)
         ELSE Plot_get_points_array(x, n_dims)
    ELSE IF y # NoArray /\ z # NoArray
    THEN IF module = "scatter" THEN Scatter_get_points_xyz(x, y, z)
         ELSE Plot_get_points_xyz(x, y, z, n_dims)
    ELSE ParseError

\* the shapes of y and z next to an x of shape s: the same, one axis less,
\* one axis more, another length of the first axis
ShapesNear(s) ==
    {s, <<1>> \o s}
        \cup (IF s = <<>> THEN {} ELSE {Tail(s), <<s[1] + 1>> \o Tail(s)})

\* n_dims is 1 for Arrows and 2 for Surface; scatter has one entity axis
CallsInUse == {<<"plots_base", 1>>, <<"plots_base", 2>>, <<"scatter", 1>>}

InitParse ==
    /\ pc = "parse"
    /\ \E call \in CallsInUse, s \in Shapes :
          \E sy \in ShapesNear(s) \cup {<<None>>}, sz \in ShapesNear(s) \cup {<<None>>} :
              parse_args = [module |-> call[1], n_dims |-> call[2],
                            x |-> Ramp(s, 0),
                            y |-> IF sy = <<None>> THEN NoArray ELSE Ramp(sy, 1000),
                            z |-> IF sz = <<None>> THEN NoArray ELSE Ramp(sz, 2000)]
    /\ parsed = [err |-> "not called", points |-> NoArray, n_frames |-> None, dims |-> <<>>]
    /\ NoObjects
    /\ NoFaces
    /\ NoNodeGroup
    /\ NoEntity
    /\ NoTile

GetPointsArray ==
    /\ pc = "parse"
    /\ parsed' = get_points_array(parse_args.module, parse_args.x, parse_args.y,
                                  parse_args.z, parse_args.n_dims)
    /\ err' = parsed'.err
    /\ pc' = "parsed"
    /\ UNCHANGED <<parse_args, notParseVars>>

NextParse == GetPointsArray

SpecParse == InitParse /\ [][NextParse]_vars

----------------------------------------------------------------------------
(* get_faces on its own: one call on a grid of n_points_x by n_points_y     *)
(* vertices per frame.                                                      *)

MaxSide == 5        \* grids of 1..MaxSide by 1..MaxSide vertices

InitFaces ==
    /\ pc = "faces"
    /\ \E nx \in 1..MaxSide, ny \in 1..MaxSide, nf \in 1..MaxFrames :
          faces_args = [n_points_x |-> nx, n_points_y |-> ny, n_frames |-> nf]
    /\ faces = <<>>
    /\ NoObjects
    /\ NoParse
    /\ NoNodeGroup
    /\ NoEntity
    /\ NoTile

GetFaces ==
    /\ pc = "faces"
    /\ faces' = get_faces(faces_args.n_points_x, faces_args.n_points_y, faces_args.n_frames)
    /\ pc' = "faces returned"
    /\ UNCHANGED <<err, faces_args, notFacesVars>>

NextFaces == GetFaces

SpecFaces == InitFaces /\ [][NextFaces]_vars

----------------------------------------------------------------------------
(* The three broadcasting forms, stated on the full shape of the array: the *)
(* frame axis, then the entity axes (one for Scatter and Arrows, two for    *)
(* Surface), then an accepted trailing shape.                               *)

Drop(s, k) == SubSeq(s, k + 1, Len(s))

MatchesForm1(s, vd) ==
    n_frames # None /\ \E tr \in vd : s = <<n_frames>> \o dims \o tr
MatchesForm2(s, vd) == \E tr \in vd : s = dims \o tr
MatchesForm3(s, vd) == s \in vd

n_vertices == n_vertices_of(n_frames, dims)

OneAxis == cls \in {"Scatter", "Arrows"}

\* shape (E', *tr) or (T', E', *tr), tr accepted, with E' or T' not the locked count
IsMismatch(s, vd) ==
    \E tr \in vd :
        \/ /\ Len(s) = Len(tr) + 1
           /\ Drop(s, 1) = tr
           /\ s[1] # n_points_of(dims)
        \/ /\ Len(s) = Len(tr) + 2
           /\ Drop(s, 2) = tr
           /\ (s[1] # n_frames \/ s[2] # n_points_of(dims))

Tiled == pc \in {"tiled", "retiled"}

----------------------------------------------------------------------------
(* C3 (as stated): an array of shape (E', *trailing) or (T', E',            *)
(* *trailing) whose E' is not the locked entity count (or whose T' is not   *)
(* the locked frame count) always raises the shape-mismatch ValueError.     *)
C3_MismatchAlwaysRejected ==
    (Tiled /\ OneAxis /\ IsMismatch(data_array.shape, valid_dims))
        => ret.err = "ValueError"

(* C3 (amended): such an array raises the shape-mismatch ValueError unless  *)
(* its full shape is also one of the three accepted forms under another     *)
(* accepted trailing shape; with the color shapes [[3],[4]] no such reading *)
(* exists and it is always rejected.                                        *)
C3_MismatchRejectedUnlessOtherForm ==
    (Tiled /\ OneAxis /\ IsMismatch(data_array.shape, valid_dims))
        => /\ ret.err \in {"none", "ValueError"}
           /\ ret.err = "none" <=>
                  \/ MatchesForm1(data_array.shape, valid_dims)
                  \/ MatchesForm2(data_array.shape, valid_dims)
                  \/ MatchesForm3(data_array.shape, valid_dims)
           /\ valid_dims = ColorDims => ret.err = "ValueError"

C3_Witness ==
    /\ pc = "tiled" /\ cls = "Arrows" /\ n_frames = 2 /\ dims = <<3>>
    /\ valid_dims = ColorDims
    /\ data_array.shape = <<2, 2, 3>>
    /\ ret.err = "ValueError"

----------------------------------------------------------------------------
(* C5 (as stated): tile_data applied to the expanded output of an accepted  *)
(* call succeeds and returns that same output.                              *)
C5_TileIdempotent ==
    pc = "retiled" => (ret2.err = "none" /\ ret2.out = ret.out)

(* C5 (amended): for Scatter and Arrows with frame_count None or 1,         *)
(* tile_data applied to the expanded output of an accepted call succeeds    *)
(* and returns that same output. (With two or more frames, and for          *)
(* Surface, the expanded shape (frame_count*entity_count, *trailing) is not *)
(* an accepted form of the same array.)                                     *)
C5_TileIdempotentSingleFrame ==
    /\ (pc = "retiled" /\ OneAxis /\ n_frames \in {None, 1})
           => (ret2.err = "none" /\ ret2.out = ret.out /\ ret2.dims = ret.dims)
    /\ (pc = "retiled" /\ (~OneAxis \/ n_frames \notin {None, 1}))
           => ~(ret2.err = "none" /\ ret2.out = ret.out)

C5_Witness ==
    /\ pc = "retiled" /\ cls = "Scatter" /\ n_frames = 1 /\ dims = <<2>>
    /\ ret.case = 3 /\ ret.dims = <<3, 3>>
    /\ ret2.err = "none" /\ ret2.out = ret.out

----------------------------------------------------------------------------
AllRowsEqual(out, a) ==
    /\ Len(out.shape) = Len(a.shape) + 1
    /\ out.shape[1] = n_vertices
    /\ \A i \in 1..n_vertices : Row(out, i) = a

(* C6 (as stated): an array whose full shape is an accepted trailing shape  *)
(* is returned as n_vertices rows, each equal to the array.                 *)
C6_ConstantBroadcast ==
    (Tiled /\ data_array.shape \in valid_dims)
        => (ret.err = "none" /\ AllRowsEqual(ret.out, data_array))

(* C6 (amended): an array whose full shape is an accepted trailing shape    *)
(* and is not also (entity_count, *trailing) for an accepted trailing shape *)
(* (form 2 wins for shape (3,) or (3,3) when entity_count is 3) is returned *)
(* as n_vertices rows, each equal to the array.                             *)
C6_ConstantBroadcastUnlessPerEntity ==
    /\ (Tiled /\ data_array.shape \in valid_dims
              /\ ~MatchesForm2(data_array.shape, valid_dims))
           => /\ ret.err = "none"
              /\ ret.dims = data_array.shape
              /\ AllRowsEqual(ret.out, data_array)
    /\ (Tiled /\ data_array.shape \in valid_dims
              /\ MatchesForm2(data_array.shape, valid_dims))
           => /\ dims = <<3>>
              /\ data_array.shape \in {<<3>>, <<3, 3>>}
              /\ ret.err = "none"
              /\ ~AllRowsEqual(ret.out, data_array)

C6_Witness ==
    /\ pc = "tiled" /\ cls = "Arrows" /\ n_frames = 2 /\ dims = <<2>>
    /\ valid_dims = ArrowsDims /\ data_array.shape = <<3>>
    /\ ret.out.shape = <<4, 3>>
    /\ Row(ret.out, 4) = data_array

----------------------------------------------------------------------------
----------------------------------------------------------------------------
(* C8: after any sequence of declarations (new_input_socket, the same name  *)
(* twice and new_input included) on a group that started with the Geometry  *)
(* input only, every declaration recorded the key of the socket the backend *)
(* created for it, input_sockets maps each declared name to the key of the  *)
(* socket of its latest declaration, and no two declarations got one key.   *)
C8_RegistryMatchesBackend ==
    pc = "linker" =>
        /\ \A i \in 1..Len(declared) : declared[i].key = declared[i].identifier
        /\ \A i, j \in 1..Len(declared) :
               i # j => declared[i].key # declared[j].key
        /\ \A n \in SocketNames :
               /\ input_sockets[n] # NoKey <=> \E i \in 1..Len(declared) : declared[i].name = n
               /\ \A i \in 1..Len(declared) :
                      (declared[i].name = n
                         /\ \A j \in (i + 1)..Len(declared) : declared[j].name # n)
                      => input_sockets[n] = declared[i].identifier

----------------------------------------------------------------------------
\* the key names an input socket of a node of type t (by name or by position)
NamesInputSocket(t, key) == InInputs(t, blender_key_of(key))
\* the key names neither an input socket nor an attribute of a node of type t
NamesNeither(t, key) == ~NamesInputSocket(t, key) /\ key \notin NodeAttributes(t)

(* C9: when new_node stops at a non-None binding whose key names neither an *)
(* input socket nor an attribute of the node, the error it raises is the    *)
(* configuration ValueError, whether the value is a constant or an output   *)
(* socket and whether the key is a name or a position.                      *)
C9_UnknownKeyRaisesValueError ==
    (pc = "linker" /\ node # 0 /\ failed # NoBinding
                   /\ NamesNeither(nodes[node].type, failed.key))
        => err = "ValueError"

----------------------------------------------------------------------------
(* C1: for every class, in every state after the construction the stored   *)
(* points have the shape they had when the constructor returned, n_frames  *)
(* and dims have their construction values, and an assignment of an array  *)
(* of another shape to points has failed.                                  *)
C1_ShapeLock ==
    pc = "ready" =>
        /\ points.shape = constructed.shape
        /\ n_frames = constructed.n_frames
        /\ dims = constructed.dims
        /\ (op = "points" /\ data_array.shape # constructed.shape) => err # "none"

\* nothing of the entity exists in the backend, and no object was deleted
BackendUntouched ==
    /\ ~mesh.exists
    /\ scene.object # "own"
    /\ ~scene.deleted
    /\ ~modifier.exists
    /\ nodes = <<>>
    /\ group_inputs = <<>>
    /\ materials = <<>>

(* C2: the construction of Arrows with both end and vector never returns,  *)
(* and when the constructor raises the error about end and vector it is a  *)
(* ValueError and the backend is untouched: no mesh, object, modifier,     *)
(* node, node-group input or material was created, no object deleted.      *)
C2_EndAndVectorRejectedFirst ==
    (cls = "Arrows" /\ args.end # NoArray /\ args.vector # NoArray) =>
        /\ pc # "ready"
        /\ raised_in = "Arrows.__init__" => (err = "ValueError" /\ BackendUntouched)

(* C4: a step in which the assignment of color, marker_rotation or arrows  *)
(* (in the constructor or after it) raises in tile_data leaves the         *)
(* per-vertex attributes, the material list of the mesh, the modifier and  *)
(* its parameters, and the mesh as they were.                              *)
C4_FailedAssignmentKeepsBackend ==
    [][(op' \in {"color", "marker_rotation", "arrows"} /\ raised_in' = "tile_data")
          => UNCHANGED <<attributes, materials, modifier, mesh>>]_vars

C4_Witness ==
    /\ pc = "ready"
    /\ op = "color"
    /\ err = "ValueError"
    /\ raised_in = "tile_data"
    /\ attributes["marker_color"] # NoArray
    /\ materials # <<>>

\* the positions of an event in the log of the construction
Indices(event) == {i \in 1..Len(log) : log[i] = event}

\* no event of the first set is logged before an event of the second
NeverBefore(first, second) ==
    \A i, j \in 1..Len(log) : (i < j /\ log[i] \in first) => log[j] \notin second

PointsFirst ==
    /\ log # <<>> => log[1] = "points_stored"
    /\ Len(log) >= 2 => log[2] = "vertex_buffer"

\* the constructor of the entity builds a node graph
BuildsGraph ==
    \/ cls = "Arrows"
    \/ cls = "Scatter" /\ args.marker_type # "None"
    \/ cls = "Surface" /\ n_frames # None

(* C10: in one construction the points are stored and the vertex buffer is *)
(* created first, then the node graph is built exactly once, and no        *)
(* attribute (color, rotation, arrows) is pushed before the graph is       *)
(* built.                                                                  *)
C10_LifecycleOrder ==
    /\ PointsFirst
    /\ Cardinality(Indices("graph_built")) <= 1
    /\ pc = "ready" => Cardinality(Indices("graph_built")) = 1
    /\ \A i \in 1..Len(log) :
           log[i] \in {"push_color", "push_rotation", "push_arrows"}
               => \E j \in 1..(i - 1) : log[j] = "graph_built"

(* C10, amended: the points are stored and the vertex buffer is created    *)
(* first; the node graph is built at most once, and by the end of the      *)
(* construction exactly once for Arrows, for a Scatter with a marker type  *)
(* and for an animated Surface, never for a static Surface or a Scatter    *)
(* without marker type; rotation and arrows are never pushed before a      *)
(* graph build; the color is never pushed after the graph build by Arrows  *)
(* and Surface (Plot.__init__ pushes it first) and never before it by      *)
(* Scatter.                                                                *)
C10_LifecycleOrderPerClass ==
    /\ PointsFirst
    /\ Cardinality(Indices("graph_built")) <= 1
    /\ pc = "ready" => (Indices("graph_built") # {} <=> BuildsGraph)
    /\ NeverBefore({"push_rotation", "push_arrows"}, {"graph_built"})
    /\ cls \in {"Arrows", "Surface"} => NeverBefore({"graph_built"}, {"push_color"})
    /\ cls = "Scatter" => NeverBefore({"push_color"}, {"graph_built"})

C10_Witness ==
    /\ pc = "ready"
    /\ cls = "Arrows"
    /\ log = <<"points_stored", "vertex_buffer", "push_color", "graph_built", "push_arrows">>

----------------------------------------------------------------------------
\* the node group of the entity: its nodes, its links and its interface inputs
NodeGraph == <<nodes, links, group_inputs>>

(* C11: every assignment of points, color, marker_rotation or arrows to a  *)
(* constructed entity, whether it succeeds or raises, leaves the nodes,    *)
(* the links and the declared group inputs of the node group as they were, *)
(* for any sequence of such assignments.                                   *)
C11_AssignmentKeepsGraph ==
    [][pc = "ready" => UNCHANGED <<NodeGraph, input_sockets, declared>>]_vars

C11_Witness ==
    /\ pc = "ready"
    /\ updates >= 2
    /\ err = "none"
    /\ op \in {"points", "color", "marker_rotation", "arrows"}
    /\ Len(nodes) > 2
    /\ attributes["marker_color"] # NoArray

----------------------------------------------------------------------------
\* the objects of bpy.data.objects that carry the name of the last new_empty call
Named == {o \in objects : o.name = object_name}

(* C12: once new_empty(name, ...) has returned, exactly one object carries *)
(* the name and it is the object the call created (the active one); the    *)
(* object that had the name when the call began and all objects below it   *)
(* are gone, and they were gone already before the new object was created. *)
(* No two objects ever carry one name, whatever names the calls repeat.    *)
C12_SingleOwnerPerName ==
    /\ \A o1, o2 \in objects : o1.name = o2.name => o1 = o2
    /\ \A o \in objects : o.id \notin doomed
    /\ pc = "new_empty" => Named = {}
    /\ (pc = "scene" /\ object_name # "") =>
           /\ Cardinality(Named) = 1
           /\ \A o \in Named : o.id = next_object - 1 /\ o.id = active

C12_Witness ==
    /\ pc = "scene"
    /\ Cardinality(doomed) >= 3
    /\ Cardinality(Named) = 1
    /\ Cardinality(objects) = 1

----------------------------------------------------------------------------
\* the call has returned a tensor
Accepted == pc = "parsed" /\ parsed.err = "none"

\* y and z were None; both were given
OnlyX == parse_args.y = NoArray /\ parse_args.z = NoArray
AllThree == parse_args.y # NoArray /\ parse_args.z # NoArray

\* (frame_count,) if frame_count is not None
FrameAxis(nf) == IF nf = None THEN <<>> ELSE <<nf>>

(* C13: for every input get_points_array accepts, the shape of the tensor  *)
(* it returns is the frame count (if not None), then the entity dims it    *)
(* returns, then 3; the bare 3-vector and the scalar triple included.      *)
C13_CanonicalShape ==
    Accepted => parsed.points.shape = FrameAxis(parsed.n_frames) \o parsed.dims \o <<3>>

C16_RowCount ==
    Accepted =>
        Prod(parsed.dims) * (IF parsed.n_frames = None THEN 1 ELSE parsed.n_frames)
            = reshape_xyz(parsed.points).shape[1]

C16_Witness ==
    /\ Accepted
    /\ AllThree
    /\ parsed.n_frames # None
    /\ parsed.n_frames > 1
    /\ Prod(parsed.dims) > 1

----------------------------------------------------------------------------
\* a[e] of a per-entity array for the e-th entity (0-based, row-major over
\* the entity axes): a[e] for Scatter and Arrows, a[m][n] for Surface
EntityRow(a, e) ==
    IF Len(dims) = 2
    THEN Row(Row(a, (e \div dims[2]) + 1), (e % dims[2]) + 1)
    ELSE Row(a, e + 1)

\* row f * N + e of the output is a[e], for every frame f and entity e
BlockPerFrame(out, a) ==
    \A f \in 0..((IF n_frames = None THEN 1 ELSE n_frames) - 1) :
        \A e \in 0..(n_points_of(dims) - 1) :
            Row(out, f * n_points_of(dims) + e + 1) = EntityRow(a, e)

(* C17 (as stated): for an array of shape (entity dims, *trailing) with an *)
(* accepted trailing shape, tile_data returns shape (T*N, *trailing) whose *)
(* row f*N + e is a[e] for every frame f and entity e of an animated       *)
(* entity, and returns the input itself for a static entity.               *)
C17_PerEntityTiling ==
    (Tiled /\ MatchesForm2(data_array.shape, valid_dims)) =>
        /\ ret.err = "none"
        /\ ret.out.shape = <<n_vertices>> \o Drop(data_array.shape, Len(dims))
        /\ BlockPerFrame(ret.out, data_array)
        /\ n_frames = None => ret.out = data_array

(* C17 (amended): the same, unless the full shape is also (T, N, *trailing') *)
(* for an accepted trailing' (T = N = 3 with per-entity rotation matrices  *)
(* or arrows vectors), where form 1 wins and the array is reshaped to      *)
(* (T*N, *trailing'); and for a static entity the output has the elements  *)
(* of the input in their order, with the input's shape for Scatter and     *)
(* Arrows and with the grid axes flattened to M*N for Surface.             *)
C17_PerEntityTilingUnlessPerFrame ==
    /\ (Tiled /\ MatchesForm2(data_array.shape, valid_dims)
              /\ ~MatchesForm1(data_array.shape, valid_dims)) =>
           /\ ret.err = "none"
           /\ ret.dims = Drop(data_array.shape, Len(dims))
           /\ ret.out.shape = <<n_vertices>> \o ret.dims
           /\ BlockPerFrame(ret.out, data_array)
           /\ n_frames = None => ret.out.data = data_array.data
           /\ (n_frames = None /\ OneAxis) => ret.out = data_array
    /\ (Tiled /\ MatchesForm2(data_array.shape, valid_dims)
              /\ MatchesForm1(data_array.shape, valid_dims)) =>
           /\ n_frames = 3 /\ dims = <<3>>
           /\ ret.err = "none"
           /\ ret.dims = Drop(data_array.shape, 2)
           /\ ret.out = [shape |-> <<n_vertices>> \o ret.dims, data |-> data_array.data]

C17_Witness ==
    /\ pc = "tiled" /\ cls = "Surface" /\ n_frames = 2 /\ dims = <<2, 2>>
    /\ data_array.shape = <<2, 2, 3>>
    /\ ret.out.shape = <<8, 3>>
    /\ Row(ret.out, 7) = Row(Row(data_array, 2), 1)

----------------------------------------------------------------------------
\* what tile_data makes of the stored arrows of the entity
TiledArrows == tile_data("Arrows", n_frames, dims, arrows, ArrowsDims)

\* the last statement or assignment pushed arrows that resolved to the
\* scalar trailing shape ()
ScalarArrowsPushed ==
    /\ cls = "Arrows"
    /\ op = "arrows"
    /\ err = "none"
    /\ arrows # NoArray
    /\ TiledArrows.dims = <<>>

(* C18: when update_arrows broadcasts an array that resolves to the scalar *)
(* trailing shape () (one scalar, a scalar per entity, a scalar per frame  *)
(* and entity), the arrows attribute pushed has shape (n_vertices, 3) and  *)
(* the three components of every row equal the scalar broadcast to it.     *)
C18_ScalarToVector ==
    ScalarArrowsPushed =>
        /\ attributes["arrows"].shape = <<n_vertices, 3>>
        /\ TiledArrows.out.shape = <<n_vertices>>
        /\ \A v \in 1..n_vertices : \A c \in 1..3 :
               attributes["arrows"].data[3 * (v - 1) + c] = TiledArrows.out.data[v]

C18_Witness ==
    /\ ScalarArrowsPushed
    /\ pc = "ready"
    /\ n_frames # None
    /\ Len(arrows.shape) = 1
    /\ n_vertices > 3
    /\ attributes["arrows"].data[4] # attributes["arrows"].data[1]

----------------------------------------------------------------------------
\* the quads of frame j in the returned array: rows j*Q+1 .. (j+1)*Q, where
\* Q is the number of rows per frame
QuadsOfFrame(j) ==
    LET Q == Len(faces) \div faces_args.n_frames
    IN {faces[q] : q \in (j * Q + 1)..((j + 1) * Q)}

\* the cells of the grid that do not wrap from the end of a row to the next
Cells ==
    {i \in 0..(faces_args.n_points_x * (faces_args.n_points_y - 1) - 1) :
        (i + 1) % faces_args.n_points_x # 0}

\* C19: get_faces(n_points_x, n_points_y, n_frames) returns, for each frame
\* j, exactly (n_points_x - 1) * (n_points_y - 1) quads, one for each i in
\* 0 .. n_points_x * (n_points_y - 1) - 1 with (i + 1) mod n_points_x # 0,
\* each equal to [i, i+1, i+N+1, i+N] + j * n_points_x * n_points_y with
\* N = n_points_x, so that every vertex index of frame j lies inside the
\* vertex block of frame j
C19_QuadTopology ==
    pc = "faces returned" =>
        LET nx == faces_args.n_points_x
            ny == faces_args.n_points_y
            nf == faces_args.n_frames
        IN  /\ Len(faces) = nf * (nx - 1) * (ny - 1)
            /\ \A j \in 0..(nf - 1) :
                  /\ Cardinality(QuadsOfFrame(j)) = (nx - 1) * (ny - 1)
                  /\ QuadsOfFrame(j) =
                        {[k \in 1..4 |-> <<i, i + 1, i + nx + 1, i + nx>>[k] + j * nx * ny] :
                            i \in Cells}
                  /\ \A f \in QuadsOfFrame(j) : \A k \in 1..4 :
                        f[k] \in (j * nx * ny)..((j + 1) * nx * ny - 1)

\* get_faces(3, 2, 1) has returned its two quads
C19_Witness ==
    /\ pc = "faces returned"
    /\ faces_args = [n_points_x |-> 3, n_points_y |-> 2, n_frames |-> 1]
    /\ faces = << <<0, 1, 4, 3>>, <<1, 2, 5, 4>> >>

----------------------------------------------------------------------------
\* the construction of an entity with frames has returned
AnimatedEntity == pc = "ready" /\ n_frames # None

\* the F-curve drives input 0 of a Math node of the group whose input 1 is
\* linked to a named attribute node and whose output is linked to a
\* Selection input
FrameFilterInGraph ==
    /\ fcurve.node \in 1..Len(nodes)
    /\ nodes[fcurve.node].type = "ShaderNodeMath"
    /\ \E l \in links :
          /\ l.to_node = fcurve.node
          /\ l.to_input = 1
          /\ nodes[l.from.node].type = "GeometryNodeInputNamedAttribute"
    /\ \E l \in links :
          /\ l.from = [node |-> fcurve.node, output |-> "Value"]
          /\ NodeInputs(nodes[l.to_node].type)[l.to_input + 1].name = <<"Selection">>

\* frame_end is T - 1; at every scene frame t of 0..T-1 the keyframed value
\* is t and the filter selects the flat indices t*N .. (t+1)*N - 1
FrameFilter ==
    LET T == n_frames
        N == n_points_of(dims)
    IN  /\ frame_end = T - 1
        /\ fcurve # NoFcurve
        /\ FrameFilterInGraph
        /\ len(mesh.vertices) = T * N
        /\ \A t \in 0..(T - 1) :
              /\ fcurve_evaluate(fcurve.co, t).num = t * fcurve_evaluate(fcurve.co, t).den
              /\ frame_selection_at(t) = (t * N)..((t + 1) * N - 1)

\* C20, as stated: for an animated entity with T frames and N entities,
\* scene frame_end is set to T - 1, at every integer scene frame t in
\* 0..T-1 the keyframed comparison value equals t, and the vertices the
\* filter selects (|t - frame_index| <= 0.5) are exactly those with flat
\* index in [t*N, (t+1)*N)
C20_FrameFilter == AnimatedEntity => FrameFilter

\* C20, amended: the same for an animated entity whose constructor builds a
\* node graph, which a Scatter with marker_type=None does not
C20_FrameFilterOfGraph == AnimatedEntity /\ BuildsGraph => FrameFilter

\* an animated Scatter with markers, more than one frame and more than one
\* entity is constructed, and at frame 1 its filter selects the second block
C20_Witness ==
    /\ AnimatedEntity
    /\ cls = "Scatter"
    /\ args.marker_type # "None"
    /\ n_frames > 1
    /\ dims[1] > 1
    /\ frame_selection_at(1) = dims[1]..(2 * dims[1] - 1)
    /\ frame_selection_at(0) = 0..(dims[1] - 1)

----------------------------------------------------------------------------
\* the Group Output nodes of the group
GroupOutputs == {k \in 1..Len(nodes) : nodes[k].type = "NodeGroupOutput"}

\* a new_node call starts: it either creates one node that is no Group
\* Output, or creates none and takes the Group Output node there is
CreatedOrFetched ==
    \/ /\ Len(nodes') = Len(nodes) + 1
       /\ node' = Len(nodes')
       /\ nodes'[node'].type # "NodeGroupOutput"
       /\ SubSeq(nodes', 1, Len(nodes)) = nodes
    \/ /\ nodes' = nodes
       /\ node' \in GroupOutputs

\* a keyword argument of the running call is applied to the node of the
\* call and to no other
BoundToNode ==
    /\ node' = node
    /\ Len(nodes') = Len(nodes)
    /\ \A k \in 1..Len(nodes) : k # node => nodes'[k] = nodes[k]
    /\ nodes'[node].type = nodes[node].type
    /\ \A l \in links' \ links : l.to_node = node

(* C21: after any sequence of new_node calls on a node group produced by   *)
(* get_node_linker the group contains exactly one Group Output node; a     *)
(* new_node("NodeGroupOutput", ...) call creates no node and applies its   *)
(* bindings to that same existing node.                                    *)
C21_SingleTerminalNode ==
    /\ [](Cardinality(GroupOutputs) = 1)
    /\ [][(pc = "linker" /\ pc' = "new_node" => CreatedOrFetched)
          /\ (pc = "new_node" => BoundToNode)]_vars

\* after a call that created a node, a new_node("NodeGroupOutput", ...)
\* call has applied a binding to the Group Output node
C21_Witness ==
    /\ pc = "new_node"
    /\ Len(nodes) = 3
    /\ node \in GroupOutputs
    /\ call_kwargs # <<>>
    /\ err = "none"
    /\ \E i \in 1..Len(call_kwargs) : call_kwargs[i].value.kind = "NodeSocket"

----------------------------------------------------------------------------
(* C22: when new_node raises the configuration ValueError for one binding, *)
(* the node created by that call, every binding of that call applied       *)
(* before the offending key and all nodes and links created by earlier     *)
(* calls remain in the node group; nothing is removed.                     *)
C22_NoRollback ==
    [][pc = "new_node" /\ err' = "ValueError" => nodes' = nodes /\ links' = links]_vars

\* a call that created the third node of the group and set a default on it
\* has raised the ValueError for its second binding; the node and the
\* default are there
C22_Witness ==
    /\ pc = "linker"
    /\ err = "ValueError"
    /\ Len(call_kwargs) = 2
    /\ node = 3
    /\ Len(nodes) = 3
    /\ nodes[3].set # {}

----------------------------------------------------------------------------
\* the vertex of grid entity (m, n) of frame j of a Surface: the points are
\* flattened row-major
GridVertex(j, m, n) == j * dims[1] * dims[2] + m * dims[2] + n

\* the face of the grid cell with corner (m, n) in frame j
GridCell(j, m, n) ==
    <<GridVertex(j, m, n), GridVertex(j, m, n + 1), GridVertex(j, m + 1, n + 1),
      GridVertex(j, m + 1, n)>>

(* C23: for a Surface whose points have entity dims (M, N), every face of  *)
(* the mesh connects the four grid-adjacent entities (m, n), (m, n+1),     *)
(* (m+1, n+1), (m+1, n) for some m < M-1, n < N-1, and every such cell has *)
(* exactly one face, for all M, N >= 1 including M # N.                    *)
C23_FacesAreGridCells ==
    cls = "Surface" /\ len(mesh.vertices) > 0 =>
        LET T == IF n_frames = None THEN 1 ELSE n_frames
            cells == {GridCell(j, m, n) : j \in 0..(T - 1), m \in 0..(dims[1] - 2),
                                          n \in 0..(dims[2] - 2)}
        IN /\ {mesh.faces[q] : q \in 1..Len(mesh.faces)} = cells
           /\ Len(mesh.faces) = Cardinality(cells)

----------------------------------------------------------------------------
\* the values the modifier holds under the key of the "Point Color" socket
PointColorParameter ==
    {q[2] : q \in {p \in modifier.params : p[1] = input_sockets["Point Color"]}}

\* the material the most recent color assignment that was not None created:
\* the last of mesh.materials (None when no color was ever assigned)
LatestColorMaterial == IF materials = <<>> THEN None ELSE materials[Len(materials)]

(* C24: in every state after an Arrows instance is constructed, after any  *)
(* sequence of color assignments, the modifier's "Point Color" parameter   *)
(* (stored under input_sockets["Point Color"]) refers to the material      *)
(* created by the most recent non-None color assignment, and is unset only *)
(* if no color was ever assigned.                                          *)
C24_PointColorCurrent ==
    cls = "Arrows" /\ pc = "ready" => PointColorParameter = {LatestColorMaterial}

----------------------------------------------------------------------------
(* C25: for every entity kind a constructor call whose coordinate input    *)
(* makes get_points_array raise does so before any backend mutation: an    *)
(* existing object with the same name is not deleted and no mesh, scene    *)
(* object or modifier is created.                                          *)
C25_UnparseableIsSideEffectFree ==
    raised_in = "get_points_array" =>
        /\ ~scene.deleted
        /\ scene.object # "own"
        /\ ~mesh.exists
        /\ ~modifier.exists

----------------------------------------------------------------------------
(* C26: after an assignment of color (likewise arrows or marker_rotation)  *)
(* that raises the shape-mismatch error, the property getter still returns *)
(* the value of the last successful assignment: the stored fields are      *)
(* those whose broadcasts the backend holds.                               *)
C26_StoredMatchesPushed ==
    [][pc = "ready" /\ err' = "ValueError" /\ raised_in' = "tile_data"
         => UNCHANGED <<color, arrows, marker_rotation>>]_vars

----------------------------------------------------------------------------
\* the points of an Arrows or a Surface are set
PlotWithPoints == cls \in {"Arrows", "Surface"} /\ points # NoArray

\* the array tile_data returns for a stored attribute has v rows
TilesTo(a, vd, v) ==
    a # NoArray =>
        LET r == tile_data(cls, n_frames, dims, a, vd)
        IN r.err = "none" => len(r.out) = v

(* C27: in every state of a Plot-based entity (Arrows, Surface) the mesh   *)
(* vertex count equals n_points * (n_frames or 1), and every array         *)
(* returned by tile_data and every per-vertex attribute pushed             *)
(* (frame_index, marker_color, arrows) has exactly that many rows, so the  *)
(* vertex-count check in set_vertex_colors and the vertex-count branch in  *)
(* update_points never raise.                                              *)
C27_RowCountInvariant ==
    PlotWithPoints =>
        LET v == n_points_of(dims) * (IF n_frames = None THEN 1 ELSE n_frames)
        IN /\ len(mesh.vertices) = v
           /\ \A name \in {"frame_index", "marker_color", "arrows"} :
                 attributes[name] # NoArray => len(attributes[name]) = v
           /\ TilesTo(color, ColorDims, v)
           /\ TilesTo(arrows, ArrowsDims, v)
           /\ raised_in \notin {"set_vertex_colors", "update_points", "foreach_set"}

\* an animated Arrows with more than one frame and more than one entity
\* holds per-entity colors and arrows, tiled over its frames
C27_Witness ==
    /\ cls = "Arrows"
    /\ pc = "ready"
    /\ n_frames # None
    /\ n_frames > 1
    /\ dims[1] > 1
    /\ color.shape = <<dims[1], 4>>
    /\ arrows.shape = <<dims[1], 3>>
    /\ len(attributes["marker_color"]) = n_frames * dims[1]
    /\ len(attributes["arrows"]) = n_frames * dims[1]
    /\ len(attributes["frame_index"]) = n_frames * dims[1]

====
